---- MODULE Spec2Model ----
(***************************************************************************)
(* ConversationalAgent of contrataai (src/src/agents/conversational_agent.py):*)
(* the tool-calling loop of chat(), the tool dispatch of _execute_tool(),   *)
(* the bounded conversation memory chat_history, and the fault path that    *)
(* reads the agent-prompt file through PromptLoader.                        *)
(*                                                                         *)
(* A message is a record [role, content, tool_calls, tool_call_id]; every   *)
(* text is a tuple of string fragments, so "the text contains the literal   *)
(* tool name" is "one fragment is the tool name".  Dates are day numbers    *)
(* and strftime is ToString.                                                *)
(***************************************************************************)
EXTENDS Integers, Sequences, FiniteSets, TLC

VARIABLES
    chat_history,    \* self.chat_history: the conversation memory
    system_prompt,   \* self.system_prompt: text built by __init__
    today,           \* environment: what datetime.now() would return (day number)
    promptFile,      \* environment: state of prompts/agent_prompts.json on disk
    pc,              \* position of chat(): "idle", "invoke" (line 136), "tools" (line 163)
    user_input,      \* argument of the running (or last) chat call
    max_iterations,  \* argument of the running (or last) chat call
    i,               \* loop variable of `for i in range(max_iterations)`
    messages,        \* the working message list of the call
    response,        \* the LLM response of the current round
    idx,             \* position in response.tool_calls of the next tool call
    outcome,         \* how the last operation on the agent ended and what it returned
    histBefore,      \* history: chat_history when the call started
    callDay,         \* history: today when the call started
    llmCalls,        \* history: LLM invocations made by the call
    toolLog,         \* history: tool executions of the call, in execution order
    api_key,         \* settings.OPENAI_API_KEY, fixed when the process starts
    app,             \* app.py: "starting", "ready", "stopped" (st.stop) or "crashed"
    initPc,          \* position of ConversationalAgent.__init__
    created,         \* history: what __init__ has created so far, in order
    report,          \* what the front-end showed when the construction failed
    invocation,      \* a tool handler called directly: its name, arguments and surroundings
    upstream,        \* the outbound requests the handler has issued (requests.get)
    payload,         \* what the handler returned, or that it raised
    self,            \* the agent instance the instance variables above belong to
    other            \* the attributes and call position of the other instance

vars == <<chat_history, system_prompt, today, promptFile, pc, user_input,
          max_iterations, i, messages, response, idx, outcome, histBefore,
          callDay, llmCalls, toolLog, api_key, app, initPc, created, report,
          invocation, upstream, payload, self, other>>

callFrame == <<user_input, max_iterations, i, messages, response, idx,
               histBefore, callDay, llmCalls, toolLog>>
environment == <<today, promptFile>>
session == <<api_key, app, initPc, created, report>>
handler == <<invocation, upstream, payload>>
instances == <<self, other>>

---------------------------------------------------------------------------
(* Bounds of the model *)

MaxIter == 2        \* largest max_iterations argument tried
MaxToolCalls == 2   \* most tool invocation requests in one LLM response
MaxPairs == 1       \* Spec, SpecEnv: a chat call starts while the memory holds at most this many pairs
MaxDay == 1         \* the clock advances at most this many days

(* Program constants *)

MEMORY_LIMIT == 20  \* conversational_agent.py:150
DAYS_AHEAD == 30    \* conversational_agent.py:58

---------------------------------------------------------------------------
(* Messages *)

NoId == <<>>

SystemMessage(content) ==
    [role |-> "system", content |-> content, tool_calls |-> <<>>, tool_call_id |-> NoId]

HumanMessage(content) ==
    [role |-> "user", content |-> content, tool_calls |-> <<>>, tool_call_id |-> NoId]

AIMessage(content) ==
    [role |-> "assistant", content |-> content, tool_calls |-> <<>>, tool_call_id |-> NoId]

ToolMessage(content, tool_call_id) ==
    [role |-> "tool", content |-> content, tool_calls |-> <<>>, tool_call_id |-> tool_call_id]

\* What llm_with_tools.invoke returns: an assistant message, with or without tool calls.
LLMResponse(content, tool_calls) ==
    [role |-> "assistant", content |-> content, tool_calls |-> tool_calls, tool_call_id |-> NoId]

NoResponse == LLMResponse(<<>>, <<>>)

---------------------------------------------------------------------------
(* __init__: the system prompt with the date of construction *)

\* The day datetime.now() returns in __init__; days are counted from it.
ConstructionDay == 0

Strftime(day) == ToString(day)

BuildSystemPrompt(hoje) ==
    <<"base_system_prompt", "Data atual: ", Strftime(hoje), "formato API: ",
      Strftime(hoje), "daqui 30 dias = ", Strftime(hoje + DAYS_AHEAD)>>

---------------------------------------------------------------------------
(* Tool registry and _execute_tool *)

\* get_all_tools(): the names of the registered tools, in registration order.
ToolNames == <<"ConsultarUF", "ConsultarMunicipio", "ConsultarModalidade", "ConsultarEditaisPNCP">>

Registered(tool_name) == \E k \in 1..Len(ToolNames) : ToolNames[k] = tool_name

\* What tool.invoke can do: return its text or raise (schema validation, handler,
\* network, timeout, malformed upstream JSON).
InvokeBehaviours == {"returns", "raises"}

\* The registry as a mapping indexed by name: an unknown name raises KeyError.
ExecuteToolUnknownRaises(tool_name, tool_input, inv) ==
    IF Registered(tool_name)
    THEN IF inv = "returns"
         THEN [raised |-> FALSE, text |-> <<"result of ", tool_name, tool_input>>]
         ELSE [raised |-> FALSE, text |-> <<"Erro ao executar ferramenta: ", "exception">>]
    ELSE [raised |-> TRUE, text |-> <<"KeyError">>]

\* tool.invoke outside any try: its exception leaves _execute_tool.
ExecuteToolNoCatch(tool_name, tool_input, inv) ==
    IF Registered(tool_name)
    THEN IF inv = "returns"
         THEN [raised |-> FALSE, text |-> <<"result of ", tool_name, tool_input>>]
         ELSE [raised |-> TRUE, text |-> <<"exception">>]
    ELSE [raised |-> FALSE, text |-> <<"Ferramenta '", tool_name, "' nao encontrada.">>]

\* _execute_tool(tool_name, tool_input) when tool.invoke behaves as `inv`.
\* raised = TRUE would be an exception leaving _execute_tool.
ExecuteTool(tool_name, tool_input, inv) ==
    IF Registered(tool_name)
    THEN IF inv = "returns"
         THEN [raised |-> FALSE, text |-> <<"result of ", tool_name, tool_input>>]
         ELSE [raised |-> FALSE, text |-> <<"Erro ao executar ferramenta: ", "exception">>]
    ELSE [raised |-> FALSE, text |-> <<"Ferramenta '", tool_name, "' nao encontrada.">>]

Contains(text, fragment) == \E k \in 1..Len(text) : text[k] = fragment

---------------------------------------------------------------------------
(* PromptLoader *)

PromptFileStates == {"ok", "no_error_message", "missing", "invalid_json"}

\* load_prompt_file("agent_prompts.json"): the keys it returns, or the exception it raises.
LoadPromptFile(file) ==
    CASE file = "missing"          -> [raised |-> "FileNotFoundError", keys |-> {}]
      [] file = "invalid_json"     -> [raised |-> "ValueError", keys |-> {}]
      [] file = "no_error_message" -> [raised |-> "", keys |-> {"system_prompt"}]
      [] OTHER                     -> [raised |-> "", keys |-> {"system_prompt", "error_message"}]

GetAgentPrompts(file) == LoadPromptFile(file)

ConfiguredErrorMessage == <<"error_message of agent_prompts.json">>
DefaultErrorMessage == <<"Desculpe, ocorreu um erro.">>
ExhaustionMessage == <<"Desculpe, nao consegui completar a tarefa. ...">>

---------------------------------------------------------------------------
(* chat() *)

\* The system prompt rebuilt with the date of the call instead of self.system_prompt.
SeedMessagesFreshDate(prompt, history, u) ==
    <<SystemMessage(BuildSystemPrompt(today))>> \o history \o <<HumanMessage(u)>>

\* The new user message is placed before the memory.
SeedMessagesUserFirst(prompt, history, u) ==
    <<SystemMessage(prompt)>> \o <<HumanMessage(u)>> \o history

\* messages = [SystemMessage(system_prompt)] + chat_history + [HumanMessage(user_input)]
SeedMessages(prompt, history, u) ==
    <<SystemMessage(prompt)>> \o history \o <<HumanMessage(u)>>

\* Off by one: range(max_iterations + 1).
LoopContinuesOneMore(n, m) == n <= m

\* A loop that tests its condition after the first pass.
LoopContinuesAtLeastOnce(n, m) == n = 0 \/ n < m

\* for i in range(max_iterations): is there an iteration with loop variable n?
LoopContinues(n, m) == n < m

\* The slice keeps one entry too many: self.chat_history[-21:].
TruncateOneTooMany(h) ==
    IF Len(h) > MEMORY_LIMIT THEN SubSeq(h, Len(h) - MEMORY_LIMIT, Len(h)) ELSE h

\* The slice keeps the oldest entries: self.chat_history[:20].
TruncateKeepOldest(h) ==
    IF Len(h) > MEMORY_LIMIT THEN SubSeq(h, 1, MEMORY_LIMIT) ELSE h

\* The slice keeps one entry too few: self.chat_history[-19:].
TruncateOneTooFew(h) ==
    IF Len(h) > MEMORY_LIMIT THEN SubSeq(h, Len(h) - MEMORY_LIMIT + 2, Len(h)) ELSE h

\* if len(self.chat_history) > 20: self.chat_history = self.chat_history[-20:]
Truncate(h) ==
    IF Len(h) > MEMORY_LIMIT THEN SubSeq(h, Len(h) - MEMORY_LIMIT + 1, Len(h)) ELSE h

\* The two appends in the wrong order: the answer before the question.
RememberAnswerFirst(history, u, output) ==
    Truncate(history \o <<AIMessage(output), HumanMessage(u)>>)

\* Lines 146-151: the memory after a turn that ended with a final answer.
Remember(history, u, output) ==
    Truncate(history \o <<HumanMessage(u), AIMessage(output)>>)

\* Requests equal in tool name and arguments to an earlier one of the list are skipped.
IterationDeduplicated(tool_calls) ==
    SelectSeq(tool_calls,
              LAMBDA tc : \A k \in 1..Len(tool_calls) :
                  (tool_calls[k].name = tc.name /\ tool_calls[k].args = tc.args)
                      => tool_calls[k].id[2] >= tc.id[2])

\* Only the first request of a response is served: response.tool_calls[0].
IterationOnlyFirst(tool_calls) == SubSeq(tool_calls, 1, 1)

\* for idx, tool_call in enumerate(response.tool_calls, 1): the calls iterated, in order.
IterationOrder(tool_calls) == tool_calls

Returned(via, value) == [status |-> "returned", via |-> via, value |-> value]
Raised(exception)    == [status |-> "raised", via |-> "fault", value |-> <<exception>>]
NoOutcome            == [status |-> "none", via |-> "none", value |-> <<>>]

\* Lines 189-199: the except branch of chat.
HandleFault(file) ==
    LET agent_prompts == GetAgentPrompts(file)
    IN  IF agent_prompts.raised # ""
        THEN Raised(agent_prompts.raised)
        ELSE IF "error_message" \in agent_prompts.keys
             THEN Returned("fault", ConfiguredErrorMessage)
             ELSE Returned("fault", DefaultErrorMessage)

\* Lines 180-187: the loop ran out of iterations.
Exhausted == Returned("exhausted", ExhaustionMessage)

\* The user message is stored before the loop, so every turn leaves it behind.
MemoryAfterEveryTurn(result, history, u) ==
    IF result.via = "done"
    THEN Remember(history, u, result.value)
    ELSE Truncate(Append(history, HumanMessage(u)))

\* The working list of the turn, without its system prompt, is what is stored.
MemoryAfterKeepsWorkingList(result, history, u) ==
    IF result.via = "done"
    THEN Truncate(SubSeq(messages, 2, Len(messages)) \o <<AIMessage(result.value)>>)
    ELSE history

\* The memory a chat call with argument u leaves when it ends with `result`:
\* only the return at line 156 is preceded by the update of lines 146-151.
MemoryAfter(result, history, u) ==
    IF result.via = "done" THEN Remember(history, u, result.value) ELSE history

\* chat(u, ...) ends with `result`.
Finish(result, u) ==
    /\ pc' = "idle"
    /\ outcome' = result
    /\ chat_history' = MemoryAfter(result, chat_history, u)

\* chat(u, m) is called: lines 123-130.  With an empty range the call is over
\* at once (lines 180-187).
ChatStart(u, m) ==
    /\ app = "ready"
    /\ pc = "idle"
    /\ user_input' = u
    /\ max_iterations' = m
    /\ messages' = SeedMessages(system_prompt, chat_history, u)
    /\ i' = 0
    /\ idx' = 1
    /\ response' = NoResponse
    /\ histBefore' = chat_history
    /\ callDay' = today
    /\ llmCalls' = 0
    /\ toolLog' = <<>>
    /\ IF LoopContinues(0, m)
       THEN pc' = "invoke" /\ outcome' = NoOutcome /\ UNCHANGED chat_history
       ELSE Finish(Exhausted, u)
    /\ UNCHANGED <<system_prompt, environment>>
    /\ UNCHANGED <<session, handler>>
    /\ UNCHANGED instances

\* Line 136 returns a response without tool calls: lines 139-156.
LLMFinal(content) ==
    /\ pc = "invoke"
    /\ response' = LLMResponse(content, <<>>)
    /\ llmCalls' = llmCalls + 1
    /\ Finish(Returned("done", content), user_input)
    /\ UNCHANGED <<system_prompt, environment, user_input, max_iterations, i,
                   messages, idx, histBefore, callDay, toolLog>>
    /\ UNCHANGED <<session, handler>>
    /\ UNCHANGED instances

\* The tools requested in the last permitted round are not executed: the call
\* returns the exhaustion message as soon as that response arrives.
LLMToolCallsSkipsLastRound(content, tool_calls) ==
    /\ pc = "invoke"
    /\ Len(tool_calls) > 0
    /\ response' = LLMResponse(content, tool_calls)
    /\ llmCalls' = llmCalls + 1
    /\ messages' = Append(messages, LLMResponse(content, tool_calls))
    /\ idx' = 1
    /\ IF LoopContinues(i + 1, max_iterations)
       THEN pc' = "tools" /\ UNCHANGED <<chat_history, outcome>>
       ELSE Finish(Exhausted, user_input)
    /\ UNCHANGED <<system_prompt, environment, user_input,
                   max_iterations, i, histBefore, callDay, toolLog>>
    /\ UNCHANGED <<session, handler>>
    /\ UNCHANGED instances

\* Line 136 returns a response with tool calls: lines 158-163.
LLMToolCalls(content, tool_calls) ==
    /\ pc = "invoke"
    /\ Len(tool_calls) > 0
    /\ response' = LLMResponse(content, tool_calls)
    /\ llmCalls' = llmCalls + 1
    /\ messages' = Append(messages, LLMResponse(content, tool_calls))
    /\ idx' = 1
    /\ pc' = "tools"
    /\ UNCHANGED <<chat_history, system_prompt, environment, user_input,
                   max_iterations, i, outcome, histBefore, callDay, toolLog>>
    /\ UNCHANGED <<session, handler>>
    /\ UNCHANGED instances

\* Line 136 raises (transport failure, ...): lines 189-199.
LLMFault ==
    /\ pc = "invoke"
    /\ llmCalls' = llmCalls + 1
    /\ Finish(HandleFault(promptFile), user_input)
    /\ UNCHANGED <<system_prompt, environment, user_input, max_iterations, i,
                   messages, response, idx, histBefore, callDay, toolLog>>
    /\ UNCHANGED <<session, handler>>
    /\ UNCHANGED instances

\* One pass of the inner loop, lines 163-178, and, after the last tool call of
\* the round, the step of the outer loop (line 130) or the exhaustion return.
\* `inv` is what tool.invoke does when the tool is found.
ToolStep(inv) ==
    /\ pc = "tools"
    /\ LET calls == IterationOrder(response.tool_calls)
           tool_call == calls[idx]
           tool_output == ExecuteTool(tool_call.name, tool_call.args, inv)
       IN  /\ inv = "returns" \/ Registered(tool_call.name)
           /\ toolLog' = Append(toolLog,
                                [round |-> i + 1, name |-> tool_call.name,
                                 args |-> tool_call.args, id |-> tool_call.id,
                                 failed |-> Registered(tool_call.name) /\ inv = "raises"])
           /\ IF tool_output.raised
              THEN /\ Finish(HandleFault(promptFile), user_input)
                   /\ UNCHANGED <<messages, idx, i>>
              ELSE /\ messages' = Append(messages, ToolMessage(tool_output.text, tool_call.id))
                   /\ idx' = idx + 1
                   /\ IF idx < Len(calls)
                      THEN UNCHANGED <<pc, i, outcome, chat_history>>
                      ELSE /\ i' = i + 1
                           /\ IF LoopContinues(i + 1, max_iterations)
                              THEN pc' = "invoke" /\ UNCHANGED <<outcome, chat_history>>
                              ELSE Finish(Exhausted, user_input)
    /\ UNCHANGED <<system_prompt, environment, user_input, max_iterations,
                   response, histBefore, callDay, llmCalls>>
    /\ UNCHANGED <<session, handler>>
    /\ UNCHANGED instances

\* The newest pair survives the reset.
ClearHistoryKeepsLastPair ==
    /\ app = "ready"
    /\ pc = "idle"
    /\ chat_history' = IF Len(chat_history) > 2
                       THEN SubSeq(chat_history, Len(chat_history) - 1, Len(chat_history))
                       ELSE chat_history
    /\ outcome' = Returned("clear", <<>>)
    /\ UNCHANGED <<system_prompt, environment, pc, callFrame>>
    /\ UNCHANGED <<session, handler>>
    /\ UNCHANGED instances

\* clear_history(): lines 201-203.
ClearHistory ==
    /\ app = "ready"
    /\ pc = "idle"
    /\ chat_history' = <<>>
    /\ outcome' = Returned("clear", <<>>)
    /\ UNCHANGED <<system_prompt, environment, pc, callFrame>>
    /\ UNCHANGED <<session, handler>>
    /\ UNCHANGED instances

---------------------------------------------------------------------------
(* Environment *)

\* The calendar day changes: datetime.now() returns a later date.
Tick ==
    /\ today < ConstructionDay + MaxDay
    /\ today' = today + 1
    /\ UNCHANGED <<chat_history, system_prompt, promptFile, pc, outcome, callFrame>>
    /\ UNCHANGED <<session, handler>>
    /\ UNCHANGED instances

\* agent_prompts.json is edited, removed or restored on disk.
PromptFileChange(file) ==
    /\ file # promptFile
    /\ promptFile' = file
    /\ UNCHANGED <<chat_history, system_prompt, today, pc, outcome, callFrame>>
    /\ UNCHANGED <<session, handler>>
    /\ UNCHANGED instances

---------------------------------------------------------------------------
(* Inputs *)

UserInputs == {<<"u1">>}
UserInputsMem == {<<"u1">>, <<"u2">>}
Contents == {<<"a1">>}
ContentsEnv == {<<"a1">>, <<"a2">>}
RequestNames == {"ConsultarUF", "FerramentaInexistente"}
ToolArgs == {"args"}

\* The tool_calls lists of length n an LLM response of round `round` can carry;
\* the call ids are unique within the chat call.
RECURSIVE ToolCallLists(_, _)
ToolCallLists(round, n) ==
    IF n = 0 THEN {<<>>}
    ELSE {Append(l, [name |-> nm, args |-> a, id |-> <<round, n>>]) :
            l \in ToolCallLists(round, n - 1), nm \in RequestNames, a \in ToolArgs}

ToolCallRequests(round) == UNION {ToolCallLists(round, n) : n \in 1..MaxToolCalls}

---------------------------------------------------------------------------
(* Settings, ConversationalAgent.__init__ and the start of the front-end *)

\* os.getenv("OPENAI_API_KEY", ""): the value of the variable, "" when it is not set
Getenv(value, default) == IF value.none THEN default ELSE value.v
ApiKeyEnvironments == {[none |-> TRUE], [none |-> FALSE, v |-> ""], [none |-> FALSE, v |-> "sk-key"]}

SettingsValidateAcceptsEmpty(key) == [raised |-> "", message |-> <<>>]

\* Settings.validate(): raises ValueError when the key is empty
SettingsValidate(key) ==
    IF key = ""
    THEN [raised |-> "ValueError",
          message |-> <<"OPENAI_API_KEY nao configurada. ",
                        "Por favor, configure a variavel no arquivo .env">>]
    ELSE [raised |-> "", message |-> <<>>]

\* get_system_prompt(): load_prompt_file may raise
GetSystemPrompt(file) == LoadPromptFile(file)

\* initialize_session_state: create_agent() raised; only ValueError is caught,
\* reported with st.error / st.info and followed by st.stop()
StartupFailed(exception, message) ==
    IF exception = "ValueError"
    THEN /\ app' = "stopped"
         /\ report' = <<"Erro ao inicializar o agente:">> \o message
                      \o <<"Verifique se a variavel OPENAI_API_KEY esta configurada corretamente no arquivo .env">>
         /\ initPc' = "raised"
    ELSE /\ app' = "crashed"
         /\ report' = <<exception>>
         /\ initPc' = "raised"

\* settings.validate()
Validate ==
    /\ app = "starting"
    /\ initPc = "validate"
    /\ LET v == SettingsValidate(api_key) IN
       IF v.raised # ""
       THEN StartupFailed(v.raised, v.message)
       ELSE /\ initPc' = "llm"
            /\ UNCHANGED <<app, report>>
    /\ UNCHANGED <<callFrame, pc, outcome, chat_history, system_prompt, environment,
                   api_key, created, handler>>
    /\ UNCHANGED instances

\* self.llm = ChatOpenAI(...)
CreateLLM ==
    /\ app = "starting"
    /\ initPc = "llm"
    /\ created' = Append(created, "llm")
    /\ initPc' = "tools"
    /\ UNCHANGED <<callFrame, pc, outcome, chat_history, system_prompt, environment,
                   api_key, app, report, handler>>
    /\ UNCHANGED instances

\* self.tools = get_all_tools()
LoadTools ==
    /\ app = "starting"
    /\ initPc = "tools"
    /\ created' = Append(created, "tools")
    /\ initPc' = "bind"
    /\ UNCHANGED <<callFrame, pc, outcome, chat_history, system_prompt, environment,
                   api_key, app, report, handler>>
    /\ UNCHANGED instances

\* self.llm_with_tools = self.llm.bind_tools(self.tools)
BindTools ==
    /\ app = "starting"
    /\ initPc = "bind"
    /\ created' = Append(created, "llm_with_tools")
    /\ initPc' = "prompt"
    /\ UNCHANGED <<callFrame, pc, outcome, chat_history, system_prompt, environment,
                   api_key, app, report, handler>>
    /\ UNCHANGED instances

\* self.system_prompt = base_system_prompt + the dates of datetime.now()
LoadSystemPrompt ==
    /\ app = "starting"
    /\ initPc = "prompt"
    /\ LET loaded == GetSystemPrompt(promptFile) IN
       IF loaded.raised # ""
       THEN /\ StartupFailed(loaded.raised, <<"agent_prompts.json">>)
            /\ UNCHANGED <<system_prompt, created>>
       ELSE /\ system_prompt' = BuildSystemPrompt(today)
            /\ created' = Append(created, "system_prompt")
            /\ initPc' = "memory"
            /\ UNCHANGED <<app, report>>
    /\ UNCHANGED <<callFrame, pc, outcome, chat_history, environment, api_key, handler>>
    /\ UNCHANGED instances

\* self.chat_history = []; create_agent returns and the session keeps the agent
CreateMemory ==
    /\ app = "starting"
    /\ initPc = "memory"
    /\ chat_history' = <<>>
    /\ created' = Append(created, "chat_history")
    /\ initPc' = "done"
    /\ app' = "ready"
    /\ UNCHANGED <<callFrame, pc, outcome, system_prompt, environment, api_key, report,
                   handler>>
    /\ UNCHANGED instances

\* the script runs again in a session that holds no agent: create_agent() is tried anew
Rerun ==
    /\ app \in {"stopped", "crashed"}
    /\ app' = "starting"
    /\ initPc' = "validate"
    /\ created' = <<>>
    /\ report' = <<>>
    /\ UNCHANGED <<callFrame, pc, outcome, chat_history, system_prompt, environment,
                   api_key, handler>>
    /\ UNCHANGED instances

---------------------------------------------------------------------------
(* Two agent instances *)

\* Every attribute of the agent is assigned on self in __init__ (lines 34-68),
\* and the position and locals of a running chat call belong to that call:
\* an instance is the record of them.
Instances == {"A", "B"}
NoInstance == [pc |-> "none"]

Snapshot ==
    [chat_history |-> chat_history, system_prompt |-> system_prompt, pc |-> pc,
     user_input |-> user_input, max_iterations |-> max_iterations, i |-> i,
     messages |-> messages, response |-> response, idx |-> idx, outcome |-> outcome,
     histBefore |-> histBefore, callDay |-> callDay, llmCalls |-> llmCalls,
     toolLog |-> toolLog]

\* create_agent() a second time: a new object with its own empty list
FreshInstance ==
    [chat_history |-> <<>>, system_prompt |-> BuildSystemPrompt(ConstructionDay),
     pc |-> "idle", user_input |-> <<>>, max_iterations |-> 0, i |-> 0,
     messages |-> <<>>, response |-> NoResponse, idx |-> 1, outcome |-> NoOutcome,
     histBefore |-> <<>>, callDay |-> ConstructionDay, llmCalls |-> 0, toolLog |-> <<>>]

\* chat_history as an attribute of the class: one list for all instances.
SwitchSharedMemory ==
    /\ app = "ready"
    /\ other # NoInstance
    /\ self' = CHOOSE inst \in Instances : inst # self
    /\ other' = Snapshot
    /\ UNCHANGED chat_history
    /\ system_prompt' = other.system_prompt
    /\ pc' = other.pc
    /\ user_input' = other.user_input
    /\ max_iterations' = other.max_iterations
    /\ i' = other.i
    /\ messages' = other.messages
    /\ response' = other.response
    /\ idx' = other.idx
    /\ outcome' = other.outcome
    /\ histBefore' = other.histBefore
    /\ callDay' = other.callDay
    /\ llmCalls' = other.llmCalls
    /\ toolLog' = other.toolLog
    /\ UNCHANGED <<environment, session, handler>>

\* The next step is taken on the other instance: its attributes and its call
\* are the ones the operations now read and write.
Switch ==
    /\ app = "ready"
    /\ other # NoInstance
    /\ self' = CHOOSE inst \in Instances : inst # self
    /\ other' = Snapshot
    /\ chat_history' = other.chat_history
    /\ system_prompt' = other.system_prompt
    /\ pc' = other.pc
    /\ user_input' = other.user_input
    /\ max_iterations' = other.max_iterations
    /\ i' = other.i
    /\ messages' = other.messages
    /\ response' = other.response
    /\ idx' = other.idx
    /\ outcome' = other.outcome
    /\ histBefore' = other.histBefore
    /\ callDay' = other.callDay
    /\ llmCalls' = other.llmCalls
    /\ toolLog' = other.toolLog
    /\ UNCHANGED <<environment, session, handler>>

---------------------------------------------------------------------------
(* Tool handlers called directly *)

NoInvocation == [tool |-> "none"]
NoPayload == [status |-> "none"]

\* Optional[...] arguments: None or a value; a string is a tuple of characters
None == [none |-> TRUE]
Some(v) == [none |-> FALSE, v |-> v]
TruthyStr(x) == ~x.none /\ x.v # <<>>       \* "if uf:" on an Optional[str]
TruthyInt(x) == ~x.none /\ x.v # 0          \* "if codigo_modalidade:" on an Optional[int]

\* what a handler did: a returned payload, or an exception that left it
ReturnedPayload(body) == [status |-> "returned", body |-> body]
RaisedOut(exception) == [status |-> "raised", exception |-> exception]

Min(a, b) == IF a <= b THEN a ELSE b
Max(a, b) == IF a >= b THEN a ELSE b

\* str.replace(old, new) for a one-character old
RECURSIVE Replace(_, _, _)
Replace(s, old, new) ==
    IF s = <<>> THEN <<>>
    ELSE (IF Head(s) = old THEN new ELSE <<Head(s)>>) \o Replace(Tail(s), old, new)

\* the letters str.upper() and str.lower() change; an accented letter is one
\* character, written with its accent after it
LowerLetters ==
    <<"a", "b", "c", "d", "e", "f", "g", "h", "i", "j", "k", "l", "m", "n", "o", "p",
      "q", "r", "s", "t", "u", "v", "w", "x", "y", "z", "a~", "a'", "a^", "a`", "e'",
      "e^", "i'", "o'", "o^", "o~", "u'", "c,">>
UpperLetters ==
    <<"A", "B", "C", "D", "E", "F", "G", "H", "I", "J", "K", "L", "M", "N", "O", "P",
      "Q", "R", "S", "T", "U", "V", "W", "X", "Y", "Z", "A~", "A'", "A^", "A`", "E'",
      "E^", "I'", "O'", "O^", "O~", "U'", "C,">>

LetterIndex(c, letters) == CHOOSE k \in 1..Len(letters) : letters[k] = c
UpperChar(c) ==
    IF \E k \in 1..Len(LowerLetters) : LowerLetters[k] = c
    THEN UpperLetters[LetterIndex(c, LowerLetters)] ELSE c
LowerChar(c) ==
    IF \E k \in 1..Len(UpperLetters) : UpperLetters[k] = c
    THEN LowerLetters[LetterIndex(c, UpperLetters)] ELSE c

Upper(s) == [k \in 1..Len(s) |-> UpperChar(s[k])]
Lower(s) == [k \in 1..Len(s) |-> LowerChar(s[k])]

\* str.strip()
RECURSIVE StripLeft(_)
StripLeft(s) == IF s # <<>> /\ Head(s) = " " THEN StripLeft(Tail(s)) ELSE s
RECURSIVE StripRight(_)
StripRight(s) ==
    IF s # <<>> /\ s[Len(s)] = " " THEN StripRight(SubSeq(s, 1, Len(s) - 1)) ELSE s
Strip(s) == StripRight(StripLeft(s))

\* the "in" operator on two strings
IsSubstring(needle, hay) ==
    \E k \in 0..(Len(hay) - Len(needle)) : SubSeq(hay, k + 1, k + Len(needle)) = needle

(* consultar_editais_pncp *)

PNCP_MIN_PAGE == 10
PNCP_MAX_PAGE == 500
PNCP_DEFAULT_PAGE == 10
PNCP_TIMEOUT == 30
HTTP_OK == 200

TamanhoValidoSemMinimo(tamanho_pagina) ==
    IF tamanho_pagina # 0 THEN Min(tamanho_pagina, PNCP_MAX_PAGE) ELSE PNCP_DEFAULT_PAGE

TamanhoValido(tamanho_pagina) ==
    IF tamanho_pagina # 0
    THEN Max(PNCP_MIN_PAGE, Min(tamanho_pagina, PNCP_MAX_PAGE))
    ELSE PNCP_DEFAULT_PAGE

LimparCnpjSemHifen(cnpj) == Replace(Replace(cnpj, ".", <<>>), "/", <<>>)

LimparCnpj(cnpj) == Replace(Replace(Replace(cnpj, ".", <<>>), "/", <<>>), "-", <<>>)

\* a key the handler leaves out of the query parameters
Absent == [none |-> TRUE]

\* The filters are tested with "is not None": an empty string and a code 0 are sent.
BuildParamsIsNotNone(args) ==
    [dataFinal |-> args.data_final,
     pagina |-> args.pagina,
     tamanhoPagina |-> TamanhoValido(args.tamanho_pagina),
     uf |-> IF ~args.uf.none THEN Some(Upper(args.uf.v)) ELSE Absent,
     cnpj |-> IF ~args.cnpj.none THEN Some(LimparCnpj(args.cnpj.v)) ELSE Absent,
     codigoModalidadeContratacao |->
         IF ~args.codigo_modalidade.none THEN Some(args.codigo_modalidade.v) ELSE Absent,
     codigoMunicipioIbge |->
         IF ~args.codigo_municipio_ibge.none THEN Some(args.codigo_municipio_ibge.v)
         ELSE Absent]

BuildParams(args) ==
    [dataFinal |-> args.data_final,
     pagina |-> args.pagina,
     tamanhoPagina |-> TamanhoValido(args.tamanho_pagina),
     uf |-> IF TruthyStr(args.uf) THEN Some(Upper(args.uf.v)) ELSE Absent,
     cnpj |-> IF TruthyStr(args.cnpj) THEN Some(LimparCnpj(args.cnpj.v)) ELSE Absent,
     codigoModalidadeContratacao |->
         IF TruthyInt(args.codigo_modalidade) THEN Some(args.codigo_modalidade.v) ELSE Absent,
     codigoMunicipioIbge |->
         IF TruthyStr(args.codigo_municipio_ibge) THEN Some(args.codigo_municipio_ibge.v)
         ELSE Absent]

\* what requests.get does: a response with a status and a body, or an exception
HttpResponse(status, body, items) ==
    [kind |-> "response", status |-> status, body |-> body, items |-> items]
RequestTimeout == [kind |-> "Timeout", status |-> 0, body |-> "none", items |-> 0]
RequestError == [kind |-> "ConnectionError", status |-> 0, body |-> "none", items |-> 0]

\* the reshaped page of a 200 response whose body is a JSON object
ReshapeOk(net, pagina) ==
    [success |-> TRUE,
     fonte |-> <<"Portal Nacional de Contratacoes Publicas (PNCP)">>,
     pagina_atual |-> pagina,
     quantidade_resultados |-> net.items,
     editais |-> [k \in 1..net.items |-> [numero_controle_pncp |-> k]]]

ErroHttpSemStatus(net, params) ==
    [success |-> FALSE,
     error |-> <<"Erro na requisicao a API do PNCP">>,
     message |-> <<"Nao foi possivel obter os dados.",
                   IF net.body = "not_json" THEN "Resposta" ELSE "Detalhes">>,
     parametros_enviados |-> params]

ErroHttp(net, params) ==
    [success |-> FALSE,
     error |-> <<"Erro na requisicao a API do PNCP">>,
     status_code |-> net.status,
     message |-> <<"Nao foi possivel obter os dados.",
                   IF net.body = "not_json" THEN "Resposta" ELSE "Detalhes">>,
     parametros_enviados |-> params]

ErroTimeout ==
    [success |-> FALSE,
     error |-> <<"Timeout na requisicao">>,
     message |-> <<"A API do PNCP demorou muito para responder. Tente novamente.">>]

ErroExcecao(exception) ==
    [success |-> FALSE,
     error |-> <<exception>>,
     message |-> <<"Erro ao consultar a API do PNCP">>]

\* the body of the try block and its two except clauses
ConsultarEditaisPncp(args, net) ==
    LET params == BuildParams(args) IN
    CASE net.kind = "Timeout" -> ReturnedPayload(ErroTimeout)
      [] net.kind = "ConnectionError" -> ReturnedPayload(ErroExcecao("ConnectionError"))
      [] net.kind = "response" /\ net.status = HTTP_OK /\ net.body = "not_json" ->
             ReturnedPayload(ErroExcecao("JSONDecodeError"))
      [] net.kind = "response" /\ net.status = HTTP_OK /\ net.body = "not_object" ->
             ReturnedPayload(ErroExcecao("AttributeError"))
      [] net.kind = "response" /\ net.status = HTTP_OK /\ net.body = "object" ->
             ReturnedPayload(ReshapeOk(net, args.pagina))
      [] OTHER -> ReturnedPayload(ErroHttp(net, params))

OutboundRequest(args) ==
    [url |-> "https://pncp.gov.br/api/consulta/v1/contratacoes/proposta",
     params |-> BuildParams(args),
     timeout |-> PNCP_TIMEOUT]

\* The handler enforces 'end date >= today': an earlier date is refused without a request.
ConsultarEditaisPNCPRefusesPastDate ==
    /\ invocation.tool = "ConsultarEditaisPNCP"
    /\ payload = NoPayload
    /\ IF invocation.args.data_final = <<Strftime(today - 1)>>
       THEN /\ payload' = ReturnedPayload(ErroExcecao("data_final anterior a data atual"))
            /\ UNCHANGED upstream
       ELSE /\ upstream' = Append(upstream, OutboundRequest(invocation.args))
            /\ payload' = ConsultarEditaisPncp(invocation.args, invocation.world)
    /\ UNCHANGED <<callFrame, pc, outcome, chat_history, system_prompt, environment,
                   session, invocation>>
    /\ UNCHANGED instances

ConsultarEditaisPNCP ==
    /\ invocation.tool = "ConsultarEditaisPNCP"
    /\ payload = NoPayload
    /\ upstream' = Append(upstream, OutboundRequest(invocation.args))
    /\ payload' = ConsultarEditaisPncp(invocation.args, invocation.world)
    /\ UNCHANGED <<callFrame, pc, outcome, chat_history, system_prompt, environment,
                   session, invocation>>
    /\ UNCHANGED instances

\* inputs of consultar_editais_pncp
MaxCnpjLen == 3
MaxItems == 1
CnpjChars == {"1", "2", ".", "/", "-"}
CnpjInputs == UNION {[1..n -> CnpjChars] : n \in 0..MaxCnpjLen}
PageSizes == {-5, 0, 5, 9, 10, 11, 250, 499, 500, 501, 9999}
ErrorStatuses == {204, 400, 404, 500}
NetBehaviours ==
    {HttpResponse(HTTP_OK, "object", n) : n \in 0..MaxItems}
    \cup {HttpResponse(HTTP_OK, b, 0) : b \in {"not_json", "not_object"}}
    \cup {HttpResponse(s, b, 0) : s \in ErrorStatuses, b \in {"object", "not_json"}}
    \cup {RequestTimeout, RequestError}

\* end dates: the day before the current one, the current day, later days, a
\* text that is no date, and the empty text
DateOf(day) == <<Strftime(day)>>
DataFinalInputs ==
    {DateOf(d) : d \in {ConstructionDay - 1, ConstructionDay, ConstructionDay + DAYS_AHEAD}}
    \cup {<<"amanha">>, <<>>}

EditaisArgs(tamanho_pagina, uf, cnpj, codigo_modalidade, codigo_municipio_ibge) ==
    [data_final |-> <<"20260220">>,
     pagina |-> 1,
     tamanho_pagina |-> tamanho_pagina,
     uf |-> uf,
     cnpj |-> cnpj,
     codigo_modalidade |-> codigo_modalidade,
     codigo_municipio_ibge |-> codigo_municipio_ibge]

EditaisInvocations ==
    {[tool |-> "ConsultarEditaisPNCP", args |-> EditaisArgs(t, None, None, None, None),
      world |-> net] : t \in PageSizes, net \in NetBehaviours}
    \cup {[tool |-> "ConsultarEditaisPNCP",
           args |-> EditaisArgs(PNCP_DEFAULT_PAGE, None, Some(c), None, None),
           world |-> net] :
             c \in CnpjInputs, net \in {HttpResponse(HTTP_OK, "object", 0), HttpResponse(500, "object", 0)}}
    \cup {[tool |-> "ConsultarEditaisPNCP",
           args |-> EditaisArgs(PNCP_DEFAULT_PAGE, uf, None, cm, ci),
           world |-> net] :
             uf \in {None, Some(<<>>), Some(<<"s", "p">>)},
             cm \in {None, Some(0), Some(6)},
             ci \in {None, Some(<<"3550308">>)},
             net \in {HttpResponse(HTTP_OK, "object", 0), HttpResponse(404, "not_json", 0)}}
    \cup {[tool |-> "ConsultarEditaisPNCP",
           args |-> EditaisArgs(PNCP_DEFAULT_PAGE, Some(<<"r", "j">>), cnpj, Some(0), ci),
           world |-> HttpResponse(HTTP_OK, "object", 0)] :
             cnpj \in {Some(<<>>), Some(<<".">>)}, ci \in {None, Some(<<>>)}}
    \cup {[tool |-> "ConsultarEditaisPNCP",
           args |-> [EditaisArgs(PNCP_DEFAULT_PAGE, None, None, None, None)
                        EXCEPT !.data_final = d, !.pagina = p],
           world |-> net] :
             d \in DataFinalInputs, p \in {1, 2},
             net \in {HttpResponse(HTTP_OK, "object", 0), RequestTimeout}}

(* consultar_uf *)

Estado(id, sigla, nome, regiao) ==
    [id |-> id, sigla |-> sigla, nome |-> nome, regiao |-> [nome |-> regiao]]

\* what carregar_estados_brasil returns: rows of estados_brasil.json, or the
\* empty list when the file cannot be read
EstadosBrasil ==
    <<Estado(35, <<"S", "P">>, <<"S", "a~", "o", " ", "P", "a", "u", "l", "o">>, <<"S", "u", "d", "e", "s", "t", "e">>),
      Estado(33, <<"R", "J">>, <<"R", "i", "o", " ", "d", "e", " ", "J", "a", "n", "e", "i", "r", "o">>, <<"S", "u", "d", "e", "s", "t", "e">>),
      Estado(13, <<"A", "M">>, <<"A", "m", "a", "z", "o", "n", "a", "s">>, <<"N", "o", "r", "t", "e">>),
      Estado(41, <<"P", "R">>, <<"P", "a", "r", "a", "n", "a'">>, <<"S", "u", "l">>)>>
EstadosTables == {EstadosBrasil, <<>>}

FiltrarEstadosNomePrimeiro(args, estados) ==
    IF TruthyStr(args.nome)
    THEN LET nome_lower == Strip(Lower(args.nome.v))
             Keep(e) == IsSubstring(nome_lower, Lower(e.nome))
         IN SelectSeq(estados, Keep)
    ELSE IF ~args.id.none
    THEN LET Keep(e) == e.id = args.id.v IN SelectSeq(estados, Keep)
    ELSE IF TruthyStr(args.sigla)
    THEN LET sigla_upper == Strip(Upper(args.sigla.v))
             Keep(e) == e.sigla = sigla_upper
         IN SelectSeq(estados, Keep)
    ELSE IF TruthyStr(args.regiao_nome)
    THEN LET regiao_lower == Strip(Lower(args.regiao_nome.v))
             Keep(e) == IsSubstring(regiao_lower, Lower(e.regiao.nome))
         IN SelectSeq(estados, Keep)
    ELSE estados

\* A filter that finds nothing hands over to the next supplied one.
FiltrarEstadosComFallback(args, estados) ==
    LET porId == SelectSeq(estados, LAMBDA e : e.id = args.id.v)
        porSigla == SelectSeq(estados, LAMBDA e : e.sigla = Strip(Upper(args.sigla.v)))
        porNome == SelectSeq(estados,
                             LAMBDA e : IsSubstring(Strip(Lower(args.nome.v)), Lower(e.nome)))
        porRegiao == SelectSeq(estados,
                               LAMBDA e : IsSubstring(Strip(Lower(args.regiao_nome.v)),
                                                      Lower(e.regiao.nome)))
        supplied == ~args.id.none \/ TruthyStr(args.sigla) \/ TruthyStr(args.nome)
                    \/ TruthyStr(args.regiao_nome)
    IN IF ~supplied THEN estados
       ELSE IF ~args.id.none /\ porId # <<>> THEN porId
       ELSE IF TruthyStr(args.sigla) /\ porSigla # <<>> THEN porSigla
       ELSE IF TruthyStr(args.nome) /\ porNome # <<>> THEN porNome
       ELSE IF TruthyStr(args.regiao_nome) THEN porRegiao
       ELSE <<>>

\* the if / elif chain that computes resultados
FiltrarEstados(args, estados) ==
    IF ~args.id.none
    THEN LET Keep(e) == e.id = args.id.v IN SelectSeq(estados, Keep)
    ELSE IF TruthyStr(args.sigla)
    THEN LET sigla_upper == Strip(Upper(args.sigla.v))
             Keep(e) == e.sigla = sigla_upper
         IN SelectSeq(estados, Keep)
    ELSE IF TruthyStr(args.nome)
    THEN LET nome_lower == Strip(Lower(args.nome.v))
             Keep(e) == IsSubstring(nome_lower, Lower(e.nome))
         IN SelectSeq(estados, Keep)
    ELSE IF TruthyStr(args.regiao_nome)
    THEN LET regiao_lower == Strip(Lower(args.regiao_nome.v))
             Keep(e) == IsSubstring(regiao_lower, Lower(e.regiao.nome))
         IN SelectSeq(estados, Keep)
    ELSE estados

ConsultarUf(args, estados) ==
    IF estados = <<>>
    THEN ReturnedPayload([success |-> FALSE,
                          error |-> <<"Nao foi possivel carregar os dados dos estados">>])
    ELSE LET resultados == FiltrarEstados(args, estados) IN
         IF resultados # <<>>
         THEN ReturnedPayload([success |-> TRUE,
                               total_encontrados |-> Len(resultados),
                               estados |-> resultados])
         ELSE ReturnedPayload([success |-> FALSE,
                               message |-> <<"Nenhum estado encontrado com os criterios especificados">>])

ConsultarUF ==
    /\ invocation.tool = "ConsultarUF"
    /\ payload = NoPayload
    /\ payload' = ConsultarUf(invocation.args, invocation.world)
    /\ UNCHANGED <<callFrame, pc, outcome, chat_history, system_prompt, environment,
                   session, invocation, upstream>>
    /\ UNCHANGED instances

\* inputs of consultar_uf
UfIds == {None, Some(35), Some(0), Some(99)}
UfSiglas == {None, Some(<<>>), Some(<<"s", "p">>), Some(<<" ", "r", "j", " ">>), Some(<<"X", "X">>)}
UfNomes == {None, Some(<<>>), Some(<<"p", "a", "u", "l", "o">>), Some(<<"A", "m", "a", "z", "o", "n", "a", "s">>), Some(<<"z", "z", "z">>)}
UfRegioes == {None, Some(<<"s", "u", "l">>), Some(<<"n", "o", "r", "t", "e">>)}
UfInvocations ==
    {[tool |-> "ConsultarUF",
      args |-> [id |-> id, sigla |-> sigla, nome |-> nome, regiao_nome |-> regiao],
      world |-> estados] :
        id \in UfIds, sigla \in UfSiglas, nome \in UfNomes, regiao \in UfRegioes,
        estados \in EstadosTables}

(* consultar_municipio *)

MUNICIPIO_CAP == 50

\* JSON null, and a value that is there
Null == [null |-> TRUE]
NotNull(fields) == [null |-> FALSE, fields |-> fields]

UfSP == [id |-> 35, sigla |-> <<"S", "P">>, nome |-> <<"S", "a~", "o", " ", "P", "a", "u", "l", "o">>]
UfRJ == [id |-> 33, sigla |-> <<"R", "J">>, nome |-> <<"R", "i", "o", " ", "d", "e", " ", "J", "a", "n", "e", "i", "r", "o">>]

\* what carregar_municipios_brasil returns: rows of municipios_brasil.json, or the
\* empty list when the file cannot be read. Row k of a generated table is named
\* "Rio k" when k is a multiple of 26 and "Sao k" otherwise, lies in SP when k is
\* odd and in RJ when k is even, and has a null microrregiao when k = nullAt.
MaxRows == 53
Municipio(k, nullAt) ==
    [id |-> 1000 + k,
     nome |-> (IF k % 26 = 0 THEN <<"R", "i", "o", " ">> ELSE <<"S", "a", "o", " ">>)
              \o <<ToString(k)>>,
     microrregiao |->
         IF k = nullAt THEN Null
         ELSE NotNull([nome |-> <<"micro">>,
                       mesorregiao |-> [nome |-> <<"meso">>,
                                        UF |-> IF k % 2 = 1 THEN UfSP ELSE UfRJ]])]
MunicipiosBrasil(n, nullAt) == [k \in 1..n |-> Municipio(k, nullAt)]
MunicipiosTables ==
    {MunicipiosBrasil(n, nullAt) : n \in {0, 3, MaxRows - 2, MaxRows}, nullAt \in {0, 2, MaxRows}}

\* resultados[:50] when the name search finds more
Cap(resultados) ==
    IF Len(resultados) > MUNICIPIO_CAP THEN SubSeq(resultados, 1, MUNICIPIO_CAP)
    ELSE resultados

\* "if microregiao: ... if uf and uf.get(key) == value"
NaUf(m, key, value) ==
    /\ ~m.microrregiao.null
    /\ m.microrregiao.fields.mesorregiao.UF[key] = value

FiltrarMunicipiosNomePrimeiro(args, municipios) ==
    IF TruthyStr(args.nome)
    THEN LET nome_lower == Strip(Lower(args.nome.v))
             Keep(m) == IsSubstring(nome_lower, Lower(m.nome))
         IN Cap(SelectSeq(municipios, Keep))
    ELSE IF ~args.id.none
    THEN LET Keep(m) == m.id = args.id.v IN SelectSeq(municipios, Keep)
    ELSE IF ~args.uf_id.none
    THEN LET Keep(m) == NaUf(m, "id", args.uf_id.v) IN SelectSeq(municipios, Keep)
    ELSE LET uf_sigla_upper == Strip(Upper(args.uf_sigla.v))
             Keep(m) == NaUf(m, "sigla", uf_sigla_upper)
         IN SelectSeq(municipios, Keep)

\* the if / elif chain that computes resultados, when a filter is supplied
FiltrarMunicipios(args, municipios) ==
    IF ~args.id.none
    THEN LET Keep(m) == m.id = args.id.v IN SelectSeq(municipios, Keep)
    ELSE IF TruthyStr(args.nome)
    THEN LET nome_lower == Strip(Lower(args.nome.v))
             Keep(m) == IsSubstring(nome_lower, Lower(m.nome))
         IN Cap(SelectSeq(municipios, Keep))
    ELSE IF ~args.uf_id.none
    THEN LET Keep(m) == NaUf(m, "id", args.uf_id.v) IN SelectSeq(municipios, Keep)
    ELSE LET uf_sigla_upper == Strip(Upper(args.uf_sigla.v))
             Keep(m) == NaUf(m, "sigla", uf_sigla_upper)
         IN SelectSeq(municipios, Keep)

SemCriterio(args) ==
    /\ args.id.none
    /\ ~TruthyStr(args.nome)
    /\ args.uf_id.none
    /\ ~TruthyStr(args.uf_sigla)

\* one entry of municipios_formatados; m.get("microrregiao", {}) is None for a
\* null microrregiao, and the .get on it raises
FormatarMunicipio(m) ==
    LET uf == m.microrregiao.fields.mesorregiao.UF IN
    [id |-> m.id,
     nome |-> m.nome,
     uf |-> [id |-> uf.id, sigla |-> uf.sigla, nome |-> uf.nome],
     microrregiao |-> m.microrregiao.fields.nome,
     mesorregiao |-> m.microrregiao.fields.mesorregiao.nome]

ConsultarMunicipioFn(args, municipios) ==
    IF municipios = <<>>
    THEN ReturnedPayload([success |-> FALSE,
                          error |-> <<"Nao foi possivel carregar os dados dos municipios">>])
    ELSE IF SemCriterio(args)
    THEN ReturnedPayload([success |-> FALSE,
                          message |-> <<"Por favor, forneca ao menos um criterio de busca (id, nome, uf_id ou uf_sigla)">>,
                          total_municipios |-> Len(municipios)])
    ELSE LET resultados == FiltrarMunicipios(args, municipios) IN
         IF resultados = <<>>
         THEN ReturnedPayload([success |-> FALSE,
                               message |-> <<"Nenhum municipio encontrado com os criterios especificados">>])
         ELSE IF \E k \in 1..Len(resultados) : resultados[k].microrregiao.null
         THEN RaisedOut("AttributeError")
         ELSE ReturnedPayload([success |-> TRUE,
                               total_encontrados |-> Len(resultados),
                               municipios |-> [k \in 1..Len(resultados) |->
                                                  FormatarMunicipio(resultados[k])]])

ConsultarMunicipio ==
    /\ invocation.tool = "ConsultarMunicipio"
    /\ payload = NoPayload
    /\ payload' = ConsultarMunicipioFn(invocation.args, invocation.world)
    /\ UNCHANGED <<callFrame, pc, outcome, chat_history, system_prompt, environment,
                   session, invocation, upstream>>
    /\ UNCHANGED instances

\* inputs of consultar_municipio
MunicipioIds == {None, Some(1002), Some(1003), Some(9)}
MunicipioNomes == {None, Some(<<>>), Some(<<"s", "a", "o">>), Some(<<"R", "I", "O">>), Some(<<" ">>), Some(<<"z", "z", "z">>)}
MunicipioUfIds == {None, Some(35), Some(33)}
MunicipioUfSiglas == {None, Some(<<>>), Some(<<"s", "p">>)}
MunicipioInvocations ==
    {[tool |-> "ConsultarMunicipio",
      args |-> [id |-> id, nome |-> nome, uf_id |-> uf_id, uf_sigla |-> uf_sigla],
      world |-> municipios] :
        id \in MunicipioIds, nome \in MunicipioNomes, uf_id \in MunicipioUfIds,
        uf_sigla \in MunicipioUfSiglas, municipios \in MunicipiosTables}

(* consultar_modalidade *)

Modalidade(codigo, nome, tipo) == [codigo |-> codigo, nome |-> nome, tipo |-> tipo]

\* obter_modalidades_contratacao
Modalidades ==
    <<Modalidade(1,
          <<"L", "e", "i", "l", "a~", "o", " ", "-", " ", "E", "l", "e", "t", "r", "o^", "n", "i", "c", "o">>,
          <<"L", "e", "i", "l", "a~", "o">>),
      Modalidade(4,
          <<"C", "o", "n", "c", "o", "r", "r", "e^", "n", "c", "i", "a", " ", "-", " ", "E", "l", "e", "t", "r", "o^", "n", "i", "c", "a">>,
          <<"C", "o", "n", "c", "o", "r", "r", "e^", "n", "c", "i", "a">>),
      Modalidade(5,
          <<"C", "o", "n", "c", "o", "r", "r", "e^", "n", "c", "i", "a", " ", "-", " ", "P", "r", "e", "s", "e", "n", "c", "i", "a", "l">>,
          <<"C", "o", "n", "c", "o", "r", "r", "e^", "n", "c", "i", "a">>),
      Modalidade(6,
          <<"P", "r", "e", "g", "a~", "o", " ", "-", " ", "E", "l", "e", "t", "r", "o^", "n", "i", "c", "o">>,
          <<"P", "r", "e", "g", "a~", "o">>),
      Modalidade(7,
          <<"P", "r", "e", "g", "a~", "o", " ", "-", " ", "P", "r", "e", "s", "e", "n", "c", "i", "a", "l">>,
          <<"P", "r", "e", "g", "a~", "o">>),
      Modalidade(8,
          <<"D", "i", "s", "p", "e", "n", "s", "a">>,
          <<"D", "i", "s", "p", "e", "n", "s", "a">>),
      Modalidade(9,
          <<"I", "n", "e", "x", "i", "g", "i", "b", "i", "l", "i", "d", "a", "d", "e">>,
          <<"I", "n", "e", "x", "i", "g", "i", "b", "i", "l", "i", "d", "a", "d", "e">>),
      Modalidade(11,
          <<"P", "r", "e'", "-", "q", "u", "a", "l", "i", "f", "i", "c", "a", "c,", "a~", "o">>,
          <<"P", "r", "e'", "-", "q", "u", "a", "l", "i", "f", "i", "c", "a", "c,", "a~", "o">>),
      Modalidade(12,
          <<"C", "r", "e", "d", "e", "n", "c", "i", "a", "m", "e", "n", "t", "o">>,
          <<"C", "r", "e", "d", "e", "n", "c", "i", "a", "m", "e", "n", "t", "o">>),
      Modalidade(13,
          <<"L", "e", "i", "l", "a~", "o", " ", "-", " ", "P", "r", "e", "s", "e", "n", "c", "i", "a", "l">>,
          <<"L", "e", "i", "l", "a~", "o">>)>>

\* str.split(): the words between runs of blanks
RECURSIVE SplitFrom(_, _, _)
SplitFrom(s, word, words) ==
    IF s = <<>> THEN (IF word = <<>> THEN words ELSE Append(words, word))
    ELSE IF Head(s) = " "
    THEN SplitFrom(Tail(s), <<>>, IF word = <<>> THEN words ELSE Append(words, word))
    ELSE SplitFrom(Tail(s), Append(word, Head(s)), words)
Split(s) == SplitFrom(s, <<>>, <<>>)

\* ' '.join(words)
RECURSIVE Join(_)
Join(words) ==
    IF words = <<>> THEN <<>>
    ELSE IF Len(words) = 1 THEN words[1]
    ELSE words[1] \o <<" ">> \o Join(Tail(words))

NormalizarSemMinusculas(texto) == Join(Split(Replace(texto, "-", <<" ">>)))

Normalizar(texto) == Join(Split(Lower(Replace(texto, "-", <<" ">>))))

\* the condition of the list comprehension
Corresponde(m, nome_normalizado) ==
    \/ IsSubstring(nome_normalizado, Normalizar(m.nome))
    \/ IsSubstring(nome_normalizado, Normalizar(m.tipo))
    \/ \E k \in 1..Len(Split(nome_normalizado)) :
          IsSubstring(Split(nome_normalizado)[k], Normalizar(m.nome))

ConsultarModalidadeFn(args, modalidades) ==
    LET resultados ==
            IF TruthyStr(args.nome)
            THEN LET nome_normalizado == Normalizar(args.nome.v)
                     Keep(m) == Corresponde(m, nome_normalizado)
                 IN SelectSeq(modalidades, Keep)
            ELSE modalidades
    IN IF resultados # <<>>
       THEN ReturnedPayload([success |-> TRUE,
                             total_encontrados |-> Len(resultados),
                             modalidades |-> resultados])
       ELSE ReturnedPayload([success |-> FALSE,
                             message |-> <<"Nenhuma modalidade encontrada com os criterios especificados">>,
                             modalidades_disponiveis |-> modalidades])

ConsultarModalidade ==
    /\ invocation.tool = "ConsultarModalidade"
    /\ payload = NoPayload
    /\ payload' = ConsultarModalidadeFn(invocation.args, invocation.world)
    /\ UNCHANGED <<callFrame, pc, outcome, chat_history, system_prompt, environment,
                   session, invocation, upstream>>
    /\ UNCHANGED instances

\* inputs of consultar_modalidade
PREGAO_SEM_ACENTO == <<"p", "r", "e", "g", "a", "o">>
PREGAO_COM_ACENTO == <<"p", "r", "e", "g", "a~", "o">>
ModalidadeNomes ==
    {None, Some(<<>>), Some(PREGAO_SEM_ACENTO), Some(PREGAO_COM_ACENTO),
     Some(<<"P", "R", "E", "G", "A~", "O">>),
     Some(<<"P", "r", "e", "g", "a~", "o", " ", "-", " ", "E", "l", "e", "t", "r", "o^", "n", "i", "c", "o">>),
     Some(<<"p", "r", "e", "s", "e", "n", "c", "i", "a", "l">>),
     Some(<<"x", "y", "z">>),
     Some(<<"-">>),
     Some(<<"p", "r", "e", "g", "a", "o", " ", " ", "e", "l", "e", "t", "r", "o", "n", "i", "c", "o">>)}
ModalidadeInvocations ==
    {[tool |-> "ConsultarModalidade", args |-> [nome |-> nome], world |-> Modalidades] :
        nome \in ModalidadeNomes}

(* ConsultarEditaisPNCP through _execute_tool: StructuredTool.invoke with args_schema *)

\* EditaisPNCPInput without the ge / le bounds of tamanho_pagina
SchemaViolationsNoBounds(tool_input) ==
    IF tool_input.data_final.none THEN {"data_final: Field required"} ELSE {}

\* EditaisPNCPInput: data_final is required, tamanho_pagina has ge=10 and le=500;
\* tool_input is the dictionary of the request, a key it lacks is None here
SchemaViolations(tool_input) ==
    (IF tool_input.data_final.none THEN {"data_final: Field required"} ELSE {})
    \cup (IF ~tool_input.tamanho_pagina.none /\ tool_input.tamanho_pagina.v < PNCP_MIN_PAGE
          THEN {"tamanho_pagina: Input should be greater than or equal to 10"} ELSE {})
    \cup (IF ~tool_input.tamanho_pagina.none /\ tool_input.tamanho_pagina.v > PNCP_MAX_PAGE
          THEN {"tamanho_pagina: Input should be less than or equal to 500"} ELSE {})

\* the arguments the handler is called with: the defaults of the schema fill the gaps
ValidatedArgs(tool_input) ==
    [data_final |-> tool_input.data_final.v,
     pagina |-> IF tool_input.pagina.none THEN 1 ELSE tool_input.pagina.v,
     tamanho_pagina |-> IF tool_input.tamanho_pagina.none THEN PNCP_DEFAULT_PAGE
                        ELSE tool_input.tamanho_pagina.v,
     uf |-> tool_input.uf,
     cnpj |-> tool_input.cnpj,
     codigo_modalidade |-> tool_input.codigo_modalidade,
     codigo_municipio_ibge |-> tool_input.codigo_municipio_ibge]

\* what tool.invoke(tool_input) does for the registered ConsultarEditaisPNCP
InvokeEditais(tool_input) ==
    IF SchemaViolations(tool_input) # {} THEN "raises" ELSE "returns"

\* _execute_tool(tool_name, tool_input) for a request that names
\* ConsultarEditaisPNCP or an unregistered tool
ExecuteToolEditais ==
    /\ invocation.tool = "_execute_tool"
    /\ payload = NoPayload
    /\ LET tool_name == invocation.args.tool_name
           tool_input == invocation.args.tool_input
           inv == InvokeEditais(tool_input)
           handlerRuns == Registered(tool_name) /\ inv = "returns"
       IN /\ payload' = ReturnedPayload([text |-> ExecuteTool(tool_name, "args", inv).text])
          /\ upstream' = IF handlerRuns
                         THEN Append(upstream, OutboundRequest(ValidatedArgs(tool_input)))
                         ELSE upstream
    /\ UNCHANGED <<callFrame, pc, outcome, chat_history, system_prompt, environment,
                   session, invocation>>
    /\ UNCHANGED instances

\* inputs of _execute_tool
ToolInput(data_final, tamanho_pagina) ==
    [data_final |-> data_final, pagina |-> None, tamanho_pagina |-> tamanho_pagina,
     uf |-> None, cnpj |-> None, codigo_modalidade |-> None, codigo_municipio_ibge |-> None]
ExecuteToolInvocations ==
    {[tool |-> "_execute_tool",
      args |-> [tool_name |-> nm, tool_input |-> ToolInput(d, t)],
      world |-> net] :
        nm \in {"ConsultarEditaisPNCP", "FerramentaInexistente"},
        d \in {None, Some(<<"20260220">>)},
        t \in {None} \cup {Some(size) : size \in PageSizes},
        net \in {HttpResponse(HTTP_OK, "object", 0), HttpResponse(500, "object", 0)}}

---------------------------------------------------------------------------
(* Specifications *)

\* the agent as __init__ leaves it, in a front-end that is ready
AgentReady ==
    /\ chat_history = <<>>
    /\ today = ConstructionDay
    /\ system_prompt = BuildSystemPrompt(ConstructionDay)
    /\ promptFile = "ok"
    /\ pc = "idle"
    /\ user_input = <<>>
    /\ max_iterations = 0
    /\ i = 0
    /\ messages = <<>>
    /\ response = NoResponse
    /\ idx = 1
    /\ outcome = NoOutcome
    /\ histBefore = <<>>
    /\ callDay = ConstructionDay
    /\ llmCalls = 0
    /\ toolLog = <<>>
    /\ api_key = "sk-key"
    /\ app = "ready"
    /\ initPc = "done"
    /\ created = <<"llm", "tools", "llm_with_tools", "system_prompt", "chat_history">>
    /\ report = <<>>

Init ==
    /\ AgentReady
    /\ invocation = NoInvocation
    /\ upstream = <<>>
    /\ payload = NoPayload
    /\ self = "A"
    /\ other = NoInstance

\* Spec, the tool-calling loop: responses with up to MaxToolCalls requests,
\* tools that return or raise, an LLM that answers or fails; the clock and the
\* prompt file stay as they were at construction.
Next ==
    \/ \E u \in UserInputs, m \in 0..MaxIter :
          Len(chat_history) <= 2 * MaxPairs /\ ChatStart(u, m)
    \/ \E c \in Contents : LLMFinal(c)
    \/ \E tcs \in ToolCallRequests(i + 1) : LLMToolCalls(<<>>, tcs)
    \/ LLMFault
    \/ \E inv \in InvokeBehaviours : ToolStep(inv)
    \/ ClearHistory

Spec == Init /\ [][Next]_vars

\* SpecEnv, the agent in a changing environment: the day advances and the
\* prompt file changes at any moment; one tool request per response.
NextEnv ==
    \/ \E u \in UserInputs, m \in 0..MaxIter :
          Len(chat_history) <= 2 * MaxPairs /\ ChatStart(u, m)
    \/ \E c \in ContentsEnv : LLMFinal(c)
    \/ \E tcs \in ToolCallLists(i + 1, 1) : LLMToolCalls(<<>>, tcs)
    \/ LLMFault
    \/ \E inv \in InvokeBehaviours : ToolStep(inv)
    \/ ClearHistory
    \/ Tick
    \/ \E file \in PromptFileStates : PromptFileChange(file)

SpecEnv == Init /\ [][NextEnv]_vars

\* SpecMem, the conversation memory over many turns: calls with
\* max_iterations = 1 and distinguishable user inputs, run until the memory
\* is full and beyond.
NextMem ==
    \/ \E u \in UserInputsMem : ChatStart(u, 1)
    \/ \E c \in Contents : LLMFinal(c)
    \/ \E tcs \in ToolCallLists(i + 1, 1) : LLMToolCalls(<<>>, tcs)
    \/ LLMFault
    \/ \E inv \in InvokeBehaviours : ToolStep(inv)
    \/ ClearHistory

SpecMem == Init /\ [][NextMem]_vars

\* SpecTools, the tool handlers as functions: the arguments and the surroundings
\* of one direct call are drawn at the start, and the handler of the tool runs once.
ToolInvocations == EditaisInvocations \cup UfInvocations \cup MunicipioInvocations
    \cup ModalidadeInvocations \cup ExecuteToolInvocations

InitTools ==
    /\ AgentReady
    /\ invocation \in ToolInvocations
    /\ upstream = <<>>
    /\ payload = NoPayload
    /\ self = "A"
    /\ other = NoInstance

NextTools ==
    \/ ConsultarEditaisPNCP
    \/ ConsultarUF
    \/ ConsultarMunicipio
    \/ ConsultarModalidade
    \/ ExecuteToolEditais

SpecTools == InitTools /\ [][NextTools]_vars

\* SpecStartup, a session from the start of the process: the environment may or
\* may not hold the key, agent_prompts.json is in any of its states, the
\* front-end constructs the agent step by step, and chats run once it is ready.
InitStartup ==
    /\ api_key \in {Getenv(value, "") : value \in ApiKeyEnvironments}
    /\ app = "starting"
    /\ initPc = "validate"
    /\ created = <<>>
    /\ report = <<>>
    /\ chat_history = <<>>
    /\ system_prompt = <<>>
    /\ today = ConstructionDay
    /\ promptFile \in PromptFileStates
    /\ pc = "idle"
    /\ user_input = <<>>
    /\ max_iterations = 0
    /\ i = 0
    /\ messages = <<>>
    /\ response = NoResponse
    /\ idx = 1
    /\ outcome = NoOutcome
    /\ histBefore = <<>>
    /\ callDay = ConstructionDay
    /\ llmCalls = 0
    /\ toolLog = <<>>
    /\ invocation = NoInvocation
    /\ upstream = <<>>
    /\ payload = NoPayload
    /\ self = "A"
    /\ other = NoInstance

NextStartup ==
    \/ Validate
    \/ CreateLLM
    \/ LoadTools
    \/ BindTools
    \/ LoadSystemPrompt
    \/ CreateMemory
    \/ Rerun
    \/ \E u \in UserInputs : ChatStart(u, 1)
    \/ \E c \in Contents : LLMFinal(c)
    \/ \E tcs \in ToolCallLists(i + 1, 1) : LLMToolCalls(<<>>, tcs)
    \/ LLMFault
    \/ \E inv \in InvokeBehaviours : ToolStep(inv)
    \/ ClearHistory

SpecStartup == InitStartup /\ [][NextStartup]_vars

\* SpecIsolation, two agent instances in one process: chat calls with
\* max_iterations = 1 and clear_history calls on either instance, interleaved
\* step by step.
MaxPairsEach == 1   \* a chat call starts while the instance's memory holds at most this many pairs

InitIsolation ==
    /\ AgentReady
    /\ invocation = NoInvocation
    /\ upstream = <<>>
    /\ payload = NoPayload
    /\ self = "A"
    /\ other = FreshInstance

NextIsolation ==
    \/ \E u \in UserInputsMem : Len(chat_history) <= 2 * MaxPairsEach /\ ChatStart(u, 1)
    \/ \E c \in Contents : LLMFinal(c)
    \/ \E tcs \in ToolCallLists(i + 1, 1) : LLMToolCalls(<<>>, tcs)
    \/ LLMFault
    \/ \E inv \in InvokeBehaviours : ToolStep(inv)
    \/ ClearHistory
    \/ Switch

SpecIsolation == InitIsolation /\ [][NextIsolation]_vars

---------------------------------------------------------------------------
(* Properties *)

InCall == pc # "idle"

\* The tool-result messages of the working list, in order.
ToolMessages == SelectSeq(messages, LAMBDA msg : msg.role = "tool")

\* The tool invocation requests of the working list's assistant messages, in order.
RECURSIVE RequestsOf(_)
RequestsOf(msgs) ==
    IF msgs = <<>> THEN <<>>
    ELSE RequestsOf(SubSeq(msgs, 1, Len(msgs) - 1)) \o msgs[Len(msgs)].tool_calls

AllRequests == RequestsOf(messages)

\* The rounds of the call in which the LLM asked for tools.
ToolRounds == Len(SelectSeq(messages, LAMBDA msg : msg.role = "assistant" /\ msg.tool_calls # <<>>))

\* C1: termination by exhaustion. With max_iterations >= 1, a chat call never
\* invokes the LLM more than max_iterations times, and once the LLM has asked
\* for tools in max_iterations rounds and their tools have run, the call is
\* over: it has returned the fixed exhaustion message after exactly
\* max_iterations LLM invocations.
C1_ExhaustionAfterMaxIterations ==
    max_iterations >= 1 =>
        /\ llmCalls <= max_iterations
        /\ ToolRounds <= max_iterations
        /\ (ToolRounds = max_iterations /\ Len(toolLog) = Len(AllRequests)) =>
               /\ pc = "idle"
               /\ llmCalls = max_iterations
               /\ outcome.via \in {"exhausted", "clear"}
        /\ outcome.via = "exhausted" =>
               /\ outcome = Returned("exhausted", ExhaustionMessage)
               /\ llmCalls = max_iterations
               /\ ToolRounds = max_iterations

C1_Witness ==
    /\ pc = "idle"
    /\ outcome = Returned("exhausted", ExhaustionMessage)
    /\ max_iterations = MaxIter
    /\ llmCalls = MaxIter
    /\ ToolRounds = MaxIter

\* C2: a chat call that ends in exhaustion leaves the memory as it was when the
\* call started, and the next chat call is seeded with the system prompt, that
\* same memory and its own user message: nothing of the failed turn.
C2_ExhaustedLeavesMemory ==
    [][(pc = "idle" /\ outcome.via = "exhausted") =>
          /\ chat_history = histBefore
          /\ InCall' =>
                /\ Len(messages') = Len(histBefore) + 2
                /\ SubSeq(messages', 2, Len(messages') - 1) = histBefore]_vars

C2_Witness ==
    /\ pc = "idle"
    /\ outcome.via = "exhausted"
    /\ llmCalls >= 1
    /\ toolLog # <<>>
    /\ histBefore # <<>>
    /\ chat_history = histBefore

\* C3: a chat call that ends because the LLM answered without tool calls, in
\* whatever round, returns the content of that answer and adds to the memory the
\* user message and then the assistant message with that content, nothing else:
\* the memory is the one before the call followed by that pair, cut to its limit.
C3_FinalAnswerStored ==
    (pc = "idle" /\ outcome.via = "done") =>
        LET n == Len(chat_history)
        IN  /\ outcome.status = "returned"
            /\ response.tool_calls = <<>>
            /\ outcome.value = response.content
            /\ llmCalls = ToolRounds + 1
            /\ llmCalls <= max_iterations
            /\ n >= 2
            /\ chat_history[n - 1] = HumanMessage(user_input)
            /\ chat_history[n] = AIMessage(response.content)
            /\ Len(histBefore) + 2 <= MEMORY_LIMIT =>
                   chat_history = histBefore \o <<HumanMessage(user_input), AIMessage(response.content)>>
            /\ Len(histBefore) + 2 > MEMORY_LIMIT =>
                   /\ n = MEMORY_LIMIT
                   /\ \A k \in 1..(n - 2) : chat_history[k] = histBefore[k + Len(histBefore) + 2 - n]

C3_Witness ==
    /\ pc = "idle"
    /\ outcome.via = "done"
    /\ llmCalls = 2
    /\ histBefore # <<>>
    /\ outcome.value # histBefore[2].content
    /\ chat_history = histBefore \o <<HumanMessage(user_input), AIMessage(outcome.value)>>

\* C4: between operations, and at every step of a call, the conversation memory
\* holds at most 20 entries.
C4_MemoryBounded == Len(chat_history) <= MEMORY_LIMIT

C4_Witness ==
    /\ pc = "idle"
    /\ outcome.via = "done"
    /\ Len(histBefore) = MEMORY_LIMIT
    /\ Len(chat_history) = MEMORY_LIMIT

\* The last n entries of s, all of s when it has fewer.
LastEntries(s, n) ==
    LET keep == IF Len(s) < n THEN Len(s) ELSE n
    IN  [k \in 1..keep |-> s[Len(s) - keep + k]]

\* C5: eviction is first in, first out. After a chat call that ended with a
\* final answer the memory is the last 20 entries of the memory before the call
\* followed by the new user entry and the new assistant entry.
C5_EvictionIsFifo ==
    (pc = "idle" /\ outcome.via = "done") =>
        chat_history =
            LastEntries(histBefore \o <<HumanMessage(user_input), AIMessage(outcome.value)>>,
                        MEMORY_LIMIT)

C5_Witness ==
    /\ pc = "idle"
    /\ outcome.via = "done"
    /\ Len(histBefore) = MEMORY_LIMIT
    /\ histBefore[1] # histBefore[3]
    /\ chat_history[1] = histBefore[3]
    /\ chat_history[MEMORY_LIMIT - 1] = HumanMessage(user_input)
    /\ chat_history[MEMORY_LIMIT - 1] # histBefore[MEMORY_LIMIT - 1]

\* The request behind an entry of toolLog, as the LLM made it.
RequestOf(entry) == [name |-> entry.name, args |-> entry.args, id |-> entry.id]

\* The chat call took the fault path (lines 189-199) out of an LLM invocation,
\* not out of a tool execution.
FaultOnlyFromLLM == outcome.via = "fault" => llmCalls = ToolRounds + 1

\* C6: a request for a tool name that is not registered is answered by
\* _execute_tool with a text that contains the name, without raising; chat
\* appends that text as the tool-result message of the request and goes on with
\* the loop instead of taking the fault path.
C6_UnknownToolIsResult ==
    /\ \A j \in 1..Len(toolLog) :
          ~Registered(toolLog[j].name) =>
              /\ j <= Len(ToolMessages)
              /\ ToolMessages[j].tool_call_id = toolLog[j].id
              /\ Contains(ToolMessages[j].content, toolLog[j].name)
              /\ ToolMessages[j].content[Len(ToolMessages[j].content)] = "' nao encontrada."
    /\ (toolLog # <<>> /\ ~Registered(toolLog[Len(toolLog)].name)) =>
          /\ FaultOnlyFromLLM
          /\ outcome.status # "raised"

C6_Witness ==
    /\ pc = "invoke"
    /\ llmCalls = 1
    /\ Len(toolLog) = 1
    /\ ~Registered(toolLog[1].name)
    /\ Contains(messages[Len(messages)].content, "FerramentaInexistente")

\* C7: failure isolation. A registered tool whose execution fails yields the
\* error text as its tool-result message; every executed tool call has its
\* tool-result message, the remaining calls of the round are executed too, and no
\* chat call leaves through the fault path because of a tool.
C7_ToolFailureIsolated ==
    /\ Len(ToolMessages) = Len(toolLog)
    /\ \A j \in 1..Len(toolLog) :
          toolLog[j].failed =>
              ToolMessages[j] = ToolMessage(<<"Erro ao executar ferramenta: ", "exception">>,
                                            toolLog[j].id)
    /\ pc # "tools" => Len(toolLog) = Len(AllRequests)
    /\ FaultOnlyFromLLM
    /\ outcome.status # "raised"

C7_Witness ==
    /\ pc = "invoke"
    /\ Len(toolLog) = 2
    /\ toolLog[1].failed
    /\ toolLog[2].round = toolLog[1].round
    /\ ~toolLog[2].failed
    /\ Len(ToolMessages) = 2

\* C8: whatever round the LLM invocation fails in, chat does not raise: it
\* returns the generic error message and leaves the memory unchanged.
C8_FaultReturnsMessage ==
    (pc = "idle" /\ outcome.via = "fault") =>
        /\ outcome.status = "returned"
        /\ outcome.value \in {ConfiguredErrorMessage, DefaultErrorMessage}
        /\ chat_history = histBefore

\* C9: the tool calls of a round are executed one at a time in the order of the
\* response, each request once per occurrence (equal requests are executed
\* again): the executions of the call are, in order, a prefix of the requests
\* made so far. While a round's tools run, the last LLM invocation is the one
\* that requested them, and the LLM is invoked again only when every request
\* has been executed.
C9_ToolsSequentialInOrder ==
    /\ Len(toolLog) <= Len(AllRequests)
    /\ \A j \in 1..Len(toolLog) : RequestOf(toolLog[j]) = AllRequests[j]
    /\ pc = "tools" =>
          /\ llmCalls = ToolRounds
          /\ idx <= Len(response.tool_calls)
          /\ Len(toolLog) = Len(AllRequests) - Len(response.tool_calls) + idx - 1
    /\ pc = "invoke" =>
          /\ llmCalls = ToolRounds
          /\ Len(toolLog) = Len(AllRequests)
    /\ (pc = "idle" /\ outcome.via = "exhausted") => Len(toolLog) = Len(AllRequests)

C9_Witness ==
    /\ pc = "invoke"
    /\ Len(toolLog) = 2
    /\ toolLog[1].round = toolLog[2].round
    /\ toolLog[1].name = toolLog[2].name
    /\ toolLog[1].args = toolLog[2].args
    /\ toolLog[1].id # toolLog[2].id
    /\ Len(ToolMessages) = 2

C11_MemoryHoldsOnlyTurns ==
    /\ \A k \in 1..Len(chat_history) :
          /\ chat_history[k].role \in {"user", "assistant"}
          /\ chat_history[k].tool_calls = <<>>
          /\ chat_history[k].tool_call_id = NoId
    /\ (pc = "idle" /\ outcome.via = "done") =>
          /\ Len(chat_history) <= Len(histBefore) + 2
          /\ chat_history[Len(chat_history)] = AIMessage(outcome.value)
    /\ (pc = "idle" /\ outcome.via \in {"exhausted", "fault"}) => chat_history = histBefore

C11_Witness ==
    /\ pc = "idle"
    /\ outcome.via = "done"
    /\ Len(toolLog) >= 2
    /\ Len(messages) >= 5
    /\ Len(chat_history) = 2

\* C12: clear_history leaves the memory empty, and the chat call that follows it
\* is seeded with exactly the system prompt and its own user message.
C12_ClearThenFreshStart ==
    [][/\ outcome.via = "clear" => chat_history = <<>>
       /\ (outcome.via = "clear" /\ outcome'.via # "clear") =>
             messages' = <<SystemMessage(system_prompt), HumanMessage(user_input')>>]_vars

C12_Witness ==
    /\ outcome.via = "clear"
    /\ chat_history = <<>>
    /\ Len(histBefore) >= 2
    /\ Len(messages) >= 4

\* the call of consultar_editais_pncp has run: its request and its payload are there
EditaisDone == invocation.tool = "ConsultarEditaisPNCP" /\ payload # NoPayload
Sent == upstream[1].params

\* C13: whatever integer page size consultar_editais_pncp is given, the
\* tamanhoPagina it sends upstream lies in [10,500]: a size below 10 (0 and
\* negative sizes included) is sent as 10, a size above 500 as 500, and a size
\* inside the range is sent unchanged.
C13_PageSizeClamped ==
    EditaisDone =>
        LET t == invocation.args.tamanho_pagina IN
        /\ Len(upstream) = 1
        /\ Sent.tamanhoPagina \in 10..500
        /\ t < 10 => Sent.tamanhoPagina = 10
        /\ t > 500 => Sent.tamanhoPagina = 500
        /\ t \in 10..500 => Sent.tamanhoPagina = t

C13_Witness ==
    /\ EditaisDone
    /\ invocation.args.tamanho_pagina = -5
    /\ Sent.tamanhoPagina = 10

\* C14: when the CNPJ given to consultar_editais_pncp contains '.', '/' or '-',
\* the cnpj value sent upstream contains none of the three characters and is
\* the input's other characters in their original order.
Punctuation == {".", "/", "-"}
IsDigitChar(c) == c \notin Punctuation

C14_CnpjStripped ==
    (/\ EditaisDone
     /\ ~invocation.args.cnpj.none
     /\ \E k \in 1..Len(invocation.args.cnpj.v) : invocation.args.cnpj.v[k] \in Punctuation)
    =>
        /\ ~Sent.cnpj.none
        /\ \A k \in 1..Len(Sent.cnpj.v) : Sent.cnpj.v[k] \notin Punctuation
        /\ Sent.cnpj.v = SelectSeq(invocation.args.cnpj.v, IsDigitChar)

C14_Witness ==
    /\ EditaisDone
    /\ invocation.args.cnpj = Some(<<"1", "-", "2">>)
    /\ Sent.cnpj = Some(<<"1", "2">>)

\* C15: on an upstream status s other than 200, consultar_editais_pncp returns
\* a payload with success false, status_code s and parametros_enviados equal to
\* the query parameters it sent; on a timeout or any other exception of the
\* request or of the reshaping it returns a payload with success false and no
\* status_code; in none of these cases does an exception leave the handler.
Failing(net) ==
    \/ net.kind # "response"
    \/ net.status # HTTP_OK
    \/ net.body # "object"

C15_FailuresBecomePayloads ==
    (EditaisDone /\ Failing(invocation.world)) =>
        /\ payload.status = "returned"
        /\ payload.body.success = FALSE
        /\ IF invocation.world.kind = "response" /\ invocation.world.status # HTTP_OK
           THEN /\ "status_code" \in DOMAIN payload.body
                /\ payload.body.status_code = invocation.world.status
                /\ payload.body.parametros_enviados = Sent
           ELSE "status_code" \notin DOMAIN payload.body

C15_Witness ==
    /\ EditaisDone
    /\ invocation.world = HttpResponse(500, "object", 0)
    /\ invocation.args.cnpj = Some(<<"1", ".", "2">>)
    /\ payload.body.status_code = 500
    /\ payload.body.parametros_enviados.cnpj = Some(<<"1", "2">>)

\* the call of consultar_uf has run on a table that could be loaded
UfDone == invocation.tool = "ConsultarUF" /\ payload # NoPayload /\ invocation.world # <<>>

\* the first supplied filter in the order id, sigla, nome, regiao_nome
UfFilterByPriority(a) ==
    IF ~a.id.none THEN "id"
    ELSE IF TruthyStr(a.sigla) THEN "sigla"
    ELSE IF TruthyStr(a.nome) THEN "nome"
    ELSE IF TruthyStr(a.regiao_nome) THEN "regiao_nome"
    ELSE "none"

\* row e passes the named filter
UfPasses(filter, a, e) ==
    CASE filter = "id" -> e.id = a.id.v
      [] filter = "sigla" -> e.sigla = Strip(Upper(a.sigla.v))
      [] filter = "nome" -> IsSubstring(Strip(Lower(a.nome.v)), Lower(e.nome))
      [] filter = "regiao_nome" ->
             IsSubstring(Strip(Lower(a.regiao_nome.v)), Lower(e.regiao.nome))
      [] OTHER -> TRUE

\* C16: the state lookup applies exactly one filter, the first supplied one in
\* the order id, sigla, nome, regiao_nome: the rows returned are the rows of the
\* table that pass that filter alone, in table order; with id 35 the result is
\* the row of Sao Paulo whatever nome is; with no filter the whole table is
\* returned as a success.
C16_UfFilterPriority ==
    UfDone =>
        LET a == invocation.args
            filter == UfFilterByPriority(a)
            Passes(e) == UfPasses(filter, a, e)
            rows == SelectSeq(invocation.world, Passes)
        IN /\ payload.status = "returned"
           /\ payload.body.success = (rows # <<>>)
           /\ payload.body.success =>
                 /\ payload.body.estados = rows
                 /\ payload.body.total_encontrados = Len(rows)
           /\ a.id = Some(35) =>
                 /\ payload.body.success
                 /\ Len(payload.body.estados) = 1
                 /\ payload.body.estados[1].nome = <<"S", "a~", "o", " ", "P", "a", "u", "l", "o">>
           /\ filter = "none" =>
                 /\ payload.body.success
                 /\ payload.body.estados = invocation.world

C16_Witness ==
    /\ UfDone
    /\ invocation.args.id = Some(35)
    /\ invocation.args.nome = Some(<<"A", "m", "a", "z", "o", "n", "a", "s">>)
    /\ invocation.args.sigla = Some(<<"X", "X">>)
    /\ payload.body.success
    /\ payload.body.estados = <<invocation.world[1]>>

\* the call of consultar_municipio has run on a table that could be loaded
MunicipioDone ==
    invocation.tool = "ConsultarMunicipio" /\ payload # NoPayload /\ invocation.world # <<>>

\* the first supplied filter in the order id, nome, uf_id, uf_sigla
MunicipioFilterByPriority(a) ==
    IF ~a.id.none THEN "id"
    ELSE IF TruthyStr(a.nome) THEN "nome"
    ELSE IF ~a.uf_id.none THEN "uf_id"
    ELSE IF TruthyStr(a.uf_sigla) THEN "uf_sigla"
    ELSE "none"

\* row m passes the named filter
MunicipioPasses(filter, a, m) ==
    CASE filter = "id" -> m.id = a.id.v
      [] filter = "nome" -> IsSubstring(Strip(Lower(a.nome.v)), Lower(m.nome))
      [] filter = "uf_id" ->
             ~m.microrregiao.null /\ m.microrregiao.fields.mesorregiao.UF.id = a.uf_id.v
      [] filter = "uf_sigla" ->
             /\ ~m.microrregiao.null
             /\ m.microrregiao.fields.mesorregiao.UF.sigla = Strip(Upper(a.uf_sigla.v))
      [] OTHER -> FALSE

Ids(rows) == [k \in 1..Len(rows) |-> rows[k].id]
IsPrefix(s, t) == Len(s) <= Len(t) /\ s = SubSeq(t, 1, Len(s))

\* C17: the municipality lookup applies exactly one filter, the first supplied
\* one in the order id, nome, uf_id, uf_sigla: what it returns is decided by the
\* rows of the table that pass that filter alone; with no filter supplied it
\* returns a failure payload that asks for a criterion and carries no rows.
C17_MunicipioFilterPriority ==
    MunicipioDone =>
        LET a == invocation.args
            filter == MunicipioFilterByPriority(a)
            Passes(m) == MunicipioPasses(filter, a, m)
            rows == SelectSeq(invocation.world, Passes)
        IN /\ filter = "none" =>
                 /\ payload.status = "returned"
                 /\ payload.body.success = FALSE
                 /\ "municipios" \notin DOMAIN payload.body
                 /\ Contains(payload.body.message,
                             "Por favor, forneca ao menos um criterio de busca (id, nome, uf_id ou uf_sigla)")
           /\ (filter # "none" /\ payload.status = "returned") =>
                 /\ payload.body.success = (rows # <<>>)
                 /\ payload.body.success => IsPrefix(Ids(payload.body.municipios), Ids(rows))
                 /\ (payload.body.success /\ filter # "nome") =>
                        Ids(payload.body.municipios) = Ids(rows)
           /\ payload.status = "raised" =>
                 \E k \in 1..Len(rows) : rows[k].microrregiao.null

C17_Witness ==
    /\ MunicipioDone
    /\ invocation.args.id = Some(1003)
    /\ invocation.args.nome = Some(<<"R", "I", "O">>)
    /\ invocation.args.uf_id = Some(33)
    /\ Len(invocation.world) = MaxRows
    /\ payload.status = "returned"
    /\ payload.body.success
    /\ Ids(payload.body.municipios) = <<1003>>

C17_WitnessNoFilter ==
    /\ MunicipioDone
    /\ SemCriterio(invocation.args)
    /\ payload.body.success = FALSE

\* C18: a name search that matches more than 50 rows of the table returns the
\* first 50 matching rows in table order with total_encontrados = 50; a search
\* that matches 50 rows or fewer returns all of them in table order.
C18_NameSearchCapped ==
    (MunicipioDone /\ MunicipioFilterByPriority(invocation.args) = "nome") =>
        LET a == invocation.args
            Passes(m) == MunicipioPasses("nome", a, m)
            rows == SelectSeq(invocation.world, Passes)
        IN rows # <<>> =>
              /\ payload.status = "returned"
              /\ payload.body.success
              /\ IF Len(rows) > 50
                 THEN /\ payload.body.total_encontrados = 50
                      /\ Ids(payload.body.municipios) = SubSeq(Ids(rows), 1, 50)
                 ELSE /\ payload.body.total_encontrados = Len(rows)
                      /\ Ids(payload.body.municipios) = Ids(rows)

\* the call of consultar_modalidade has run
ModalidadeDone == invocation.tool = "ConsultarModalidade" /\ payload # NoPayload
Codigos(rows) == {rows[k].codigo : k \in 1..Len(rows)}

\* C19, as the spec states it: the query "pregao", without accent and without
\* hyphen, returns a success that contains Pregao - Eletronico (6) and
\* Pregao - Presencial (7).
C19_PregaoSemAcentoEncontra ==
    (ModalidadeDone /\ invocation.args.nome = Some(PREGAO_SEM_ACENTO)) =>
        /\ payload.body.success
        /\ {6, 7} \subseteq Codigos(payload.body.modalidades)

\* C19, amended: the query "pregão", with its accent and without hyphen, returns
\* a success that contains exactly the codes 6 and 7; the query "pregao" without
\* the accent matches no row and returns the failure payload that lists all
\* the modalities, because the normalisation keeps accents.
C19_PregaoComAcentoEncontra ==
    /\ (ModalidadeDone /\ invocation.args.nome = Some(PREGAO_COM_ACENTO)) =>
          /\ payload.body.success
          /\ Codigos(payload.body.modalidades) = {6, 7}
    /\ (ModalidadeDone /\ invocation.args.nome = Some(PREGAO_SEM_ACENTO)) =>
          /\ payload.body.success = FALSE
          /\ payload.body.modalidades_disponiveis = Modalidades

C19_Witness ==
    /\ ModalidadeDone
    /\ invocation.args.nome = Some(PREGAO_COM_ACENTO)
    /\ payload.body.success
    /\ payload.body.total_encontrados = 2

\* C20: with OPENAI_API_KEY missing or empty the construction of the agent
\* fails with the configuration error of Settings.validate before the LLM
\* client, the tool list or the memory is created; no chat call ever starts or
\* invokes the LLM in that session; once the validation has run the front-end
\* has reported the error and stopped.
C20_NoKeyNoAgent ==
    api_key = "" =>
        /\ created = <<>>
        /\ app \in {"starting", "stopped"}
        /\ pc = "idle" /\ outcome = NoOutcome /\ llmCalls = 0
        /\ chat_history = <<>> /\ system_prompt = <<>>
        /\ initPc \in {"validate", "raised"}
        /\ initPc = "raised" =>
              /\ app = "stopped"
              /\ Contains(report, "Erro ao inicializar o agente:")
              /\ Contains(report, "OPENAI_API_KEY nao configurada. ")

C20_Witness ==
    /\ api_key = ""
    /\ app = "stopped"
    /\ initPc = "raised"
    /\ created = <<>>
    /\ Contains(report, "OPENAI_API_KEY nao configurada. ")

\* the assistant messages of the working list that carry requests: their positions
RequestPositions ==
    {p \in 1..Len(messages) : messages[p].role = "assistant" /\ messages[p].tool_calls # <<>>}

\* the positions of the tool-result messages that carry call id `id`
ResultPositions(id) ==
    {q \in 1..Len(messages) : messages[q].role = "tool" /\ messages[q].tool_call_id = id}

\* the LLM is about to be invoked again, or the call has ended by exhaustion
RoundsComplete == pc = "invoke" \/ (pc = "idle" /\ outcome.via = "exhausted")

\* C22: when the LLM is invoked again (or the call ends by exhaustion), every
\* request of every assistant message of the working list has exactly one
\* tool-result message with its call id, placed after that assistant message
\* and before the next one, in the order of the requests; at every moment each
\* tool-result message answers a request of the nearest assistant message
\* before it.
C22_OneResultPerRequest ==
    /\ RoundsComplete =>
          \A p \in RequestPositions :
              \A k \in 1..Len(messages[p].tool_calls) :
                  /\ p + k <= Len(messages)
                  /\ ResultPositions(messages[p].tool_calls[k].id) = {p + k}
    /\ \A q \in 1..Len(messages) :
          messages[q].role = "tool" =>
              \E p \in RequestPositions :
                  /\ p < q
                  /\ q - p <= Len(messages[p].tool_calls)
                  /\ messages[q].tool_call_id = messages[p].tool_calls[q - p].id

C22_Witness ==
    /\ pc = "invoke"
    /\ llmCalls = 1
    /\ Len(response.tool_calls) = 2
    /\ Len(ToolMessages) = 2
    /\ ToolMessages[1].tool_call_id = response.tool_calls[1].id
    /\ ToolMessages[2].tool_call_id = response.tool_calls[2].id

\* the working list as the call seeded it
SeedLen == Len(histBefore) + 2

\* C23: the first LLM invocation of a chat call receives the system prompt,
\* then the entries of the memory in stored order, then the new user message,
\* and nothing else; every later invocation receives that list followed by the
\* assistant messages with requests and their tool results of the earlier
\* rounds, one assistant message per earlier invocation; during a call the
\* working list only grows at its end.
C23_WorkingListAppendOnly ==
    /\ [](InCall =>
            /\ Len(messages) >= SeedLen
            /\ messages[1] = SystemMessage(system_prompt)
            /\ SubSeq(messages, 2, SeedLen - 1) = histBefore
            /\ messages[SeedLen] = HumanMessage(user_input)
            /\ \A k \in (SeedLen + 1)..Len(messages) :
                  \/ messages[k].role = "tool"
                  \/ messages[k].role = "assistant" /\ messages[k].tool_calls # <<>>
            /\ pc = "invoke" =>
                  /\ llmCalls = 0 => Len(messages) = SeedLen
                  /\ Cardinality(RequestPositions \ (1..SeedLen)) = llmCalls)
    /\ [][InCall => IsPrefix(messages, messages')]_vars

C23_Witness ==
    /\ pc = "invoke"
    /\ llmCalls = 1
    /\ histBefore # <<>>
    /\ Len(messages) = SeedLen + 2
    /\ messages[SeedLen + 1].role = "assistant"
    /\ messages[SeedLen + 2].role = "tool"

\* C24: a chat call invokes the LLM at most max_iterations times; a call with
\* max_iterations = 0 returns the exhaustion message without an LLM
\* invocation, without a tool execution and with the memory unchanged.
C24_AtMostMaxIterationsInvocations ==
    /\ llmCalls <= max_iterations
    /\ (max_iterations = 0 /\ outcome.via \notin {"none", "clear"}) =>
          /\ pc = "idle"
          /\ outcome = Returned("exhausted", ExhaustionMessage)
          /\ llmCalls = 0
          /\ toolLog = <<>>
          /\ chat_history = histBefore

C24_Witness ==
    /\ pc = "idle"
    /\ max_iterations = 0
    /\ outcome = Returned("exhausted", ExhaustionMessage)
    /\ histBefore # <<>>
    /\ llmCalls = 0
    /\ Len(messages) = SeedLen

\* C26: the memory always has even length and alternates user, assistant,
\* starting with a user entry; in particular a truncation to 20 entries drops a
\* whole pair and leaves the memory starting with a user entry whose answer
\* follows it.
C26_MemoryPairsAligned ==
    /\ Len(chat_history) % 2 = 0
    /\ \A k \in 1..Len(chat_history) :
          /\ chat_history[k].role = (IF k % 2 = 1 THEN "user" ELSE "assistant")
          /\ chat_history[k].tool_calls = <<>>
    /\ (pc = "idle" /\ outcome.via = "done" /\ Len(histBefore) = MEMORY_LIMIT) =>
          /\ Len(chat_history) = MEMORY_LIMIT
          /\ SubSeq(chat_history, 1, MEMORY_LIMIT - 2) = SubSeq(histBefore, 3, MEMORY_LIMIT)
          /\ chat_history[MEMORY_LIMIT - 1] = HumanMessage(user_input)
          /\ chat_history[MEMORY_LIMIT] = AIMessage(outcome.value)

C26_Witness ==
    /\ pc = "idle"
    /\ outcome.via = "done"
    /\ Len(histBefore) = MEMORY_LIMIT
    /\ chat_history # histBefore
    /\ chat_history[1].role = "user"
    /\ chat_history[1] = histBefore[3]

\* the executions of the call that belong to round r
ExecutedInRound(r) == SelectSeq(toolLog, LAMBDA entry : entry.round = r)

\* C27: when the LLM asks for tools in round max_iterations, the last permitted
\* one, those tools are still executed and their results are appended to the
\* working list, and only then does the call return the exhaustion message:
\* an exhausted call with max_iterations >= 1 has executed the requests of
\* max_iterations rounds, the working list ends with the result of the last
\* request, and no LLM invocation followed it.
C27_LastRoundToolsStillRun ==
    (pc = "idle" /\ outcome.via = "exhausted" /\ max_iterations >= 1) =>
        /\ outcome = Returned("exhausted", ExhaustionMessage)
        /\ llmCalls = max_iterations
        /\ ToolRounds = max_iterations
        /\ Len(response.tool_calls) >= 1
        /\ Len(ExecutedInRound(max_iterations)) = Len(response.tool_calls)
        /\ \A k \in 1..Len(response.tool_calls) :
              /\ RequestOf(ExecutedInRound(max_iterations)[k]) = response.tool_calls[k]
              /\ messages[Len(messages) - Len(response.tool_calls) + k].role = "tool"
              /\ messages[Len(messages) - Len(response.tool_calls) + k].tool_call_id =
                     response.tool_calls[k].id
        /\ messages[Len(messages) - Len(response.tool_calls)] = response

C27_Witness ==
    /\ pc = "idle"
    /\ outcome.via = "exhausted"
    /\ max_iterations = MaxIter
    /\ Len(response.tool_calls) = 2
    /\ Len(ExecutedInRound(MaxIter)) = 2
    /\ messages[Len(messages)].role = "tool"

\* C28: in the state lookup and in the municipality lookup the first supplied
\* filter in priority order decides the result also when no row passes it: the
\* result is then the not-found failure payload, whatever the lower-priority
\* filters that were supplied with it would have matched.
C28_NoFallbackToLowerFilters ==
    /\ UfDone =>
          LET a == invocation.args
              filter == UfFilterByPriority(a)
          IN (filter # "none" /\ \A k \in 1..Len(invocation.world) :
                                    ~UfPasses(filter, a, invocation.world[k])) =>
                /\ payload.status = "returned"
                /\ payload.body.success = FALSE
                /\ "estados" \notin DOMAIN payload.body
                /\ payload.body.message =
                       <<"Nenhum estado encontrado com os criterios especificados">>
    /\ MunicipioDone =>
          LET a == invocation.args
              filter == MunicipioFilterByPriority(a)
          IN (filter # "none" /\ \A k \in 1..Len(invocation.world) :
                                    ~MunicipioPasses(filter, a, invocation.world[k])) =>
                /\ payload.status = "returned"
                /\ payload.body.success = FALSE
                /\ "municipios" \notin DOMAIN payload.body
                /\ payload.body.message =
                       <<"Nenhum municipio encontrado com os criterios especificados">>

C28_Witness ==
    /\ UfDone
    /\ invocation.args.id = Some(99)
    /\ invocation.args.sigla = Some(<<"s", "p">>)
    /\ invocation.args.nome = Some(<<"A", "m", "a", "z", "o", "n", "a", "s">>)
    /\ payload.body.success = FALSE

C28_WitnessMunicipio ==
    /\ MunicipioDone
    /\ invocation.args.id = Some(9)
    /\ invocation.args.nome = Some(<<"s", "a", "o">>)
    /\ invocation.args.uf_id = Some(35)
    /\ payload.status = "returned"
    /\ payload.body.success = FALSE

\* C29: consultar_editais_pncp sends data_final as dataFinal exactly as given
\* and checks it neither against the current date nor for its format: for the
\* day before today, for a text that is no date and for the empty text it
\* still issues exactly one request, and what it returns depends on the answer
\* of the network alone.
C29_DataFinalForwardedUnchecked ==
    EditaisDone =>
        /\ Len(upstream) = 1
        /\ Sent.dataFinal = invocation.args.data_final
        /\ payload.status = "returned"
        /\ payload.body.success =
               (invocation.world.kind = "response" /\ invocation.world.status = HTTP_OK
                /\ invocation.world.body = "object")

C29_Witness ==
    /\ EditaisDone
    /\ invocation.args.data_final = DateOf(today - 1)
    /\ Len(upstream) = 1
    /\ Sent.dataFinal = DateOf(today - 1)
    /\ payload.body.success

\* C30: every request of consultar_editais_pncp carries dataFinal, pagina and
\* tamanhoPagina; uf, cnpj, codigoModalidadeContratacao and codigoMunicipioIbge
\* are in the query exactly when their argument is neither None nor empty nor
\* 0; a uf that is sent is the argument in upper case.
C30_OptionalFiltersWhenTruthy ==
    EditaisDone =>
        LET a == invocation.args IN
        /\ Sent.dataFinal = a.data_final
        /\ Sent.pagina = a.pagina
        /\ Sent.tamanhoPagina \in 10..500
        /\ Sent.uf.none = (a.uf \in {None, Some(<<>>)})
        /\ Sent.cnpj.none = (a.cnpj \in {None, Some(<<>>)})
        /\ Sent.codigoModalidadeContratacao.none = (a.codigo_modalidade \in {None, Some(0)})
        /\ Sent.codigoMunicipioIbge.none = (a.codigo_municipio_ibge \in {None, Some(<<>>)})
        /\ ~Sent.uf.none =>
              /\ Len(Sent.uf.v) = Len(a.uf.v)
              /\ \A k \in 1..Len(a.uf.v) : Sent.uf.v[k] = UpperChar(a.uf.v[k])
        /\ ~Sent.codigoModalidadeContratacao.none =>
              Sent.codigoModalidadeContratacao.v = a.codigo_modalidade.v
        /\ ~Sent.codigoMunicipioIbge.none =>
              Sent.codigoMunicipioIbge.v = a.codigo_municipio_ibge.v

C30_Witness ==
    /\ EditaisDone
    /\ invocation.args.uf = Some(<<"r", "j">>)
    /\ invocation.args.cnpj = Some(<<>>)
    /\ invocation.args.codigo_modalidade = Some(0)
    /\ invocation.args.codigo_municipio_ibge = Some(<<>>)
    /\ Sent.uf = Some(<<"R", "J">>)
    /\ Sent.cnpj.none
    /\ Sent.codigoModalidadeContratacao.none
    /\ Sent.codigoMunicipioIbge.none

\* _execute_tool has run for a request that names ConsultarEditaisPNCP
ExecuteEditaisDone ==
    /\ invocation.tool = "_execute_tool"
    /\ invocation.args.tool_name = "ConsultarEditaisPNCP"
    /\ payload # NoPayload

\* C25: when ConsultarEditaisPNCP is invoked through _execute_tool with a page
\* size below 10 or above 500, or without data_final, the handler does not
\* run: no request is issued and _execute_tool returns the in-band text
\* "Erro ao executar ferramenta: ..."; with arguments the schema accepts the
\* handler runs and issues one request with the page size as given.
C25_SchemaViolationIsInBandError ==
    ExecuteEditaisDone =>
        LET tool_input == invocation.args.tool_input
            bad == \/ tool_input.data_final.none
                   \/ /\ ~tool_input.tamanho_pagina.none
                      /\ tool_input.tamanho_pagina.v \notin 10..500
        IN /\ payload.status = "returned"
           /\ bad => /\ upstream = <<>>
                     /\ payload.body.text[1] = "Erro ao executar ferramenta: "
           /\ ~bad => /\ Len(upstream) = 1
                      /\ ~tool_input.tamanho_pagina.none =>
                            Sent.tamanhoPagina = tool_input.tamanho_pagina.v
                      /\ payload.body.text[1] # "Erro ao executar ferramenta: "

C25_Witness ==
    /\ ExecuteEditaisDone
    /\ invocation.args.tool_input.data_final = Some(<<"20260220">>)
    /\ invocation.args.tool_input.tamanho_pagina = Some(5)
    /\ upstream = <<>>
    /\ payload.body.text[1] = "Erro ao executar ferramenta: "

\* the conversation memory of an instance
MemoryOf(inst) == IF self = inst THEN chat_history ELSE other.chat_history

\* C21: with two agent instances and their chat and clear_history calls
\* interleaved in any way, the memory of an instance changes only in a step of
\* a call on that instance, and then to what that call alone makes of the
\* instance's own memory: empty after clear_history, or its own memory
\* followed by the question and the answer of its own call. So the memory of A
\* is at every moment what the calls on A alone would have left.
C21_SessionIsolation ==
    [][\A inst \in Instances :
          /\ (self # inst \/ self' # inst) => MemoryOf(inst)' = MemoryOf(inst)
          /\ (self = inst /\ self' = inst /\ chat_history' # chat_history) =>
                \/ pc = "idle" /\ chat_history' = <<>>
                \/ /\ pc = "invoke" /\ pc' = "idle" /\ outcome'.via = "done"
                   /\ chat_history' =
                          Truncate(chat_history
                                   \o <<HumanMessage(user_input), AIMessage(outcome'.value)>>)]_vars

C21_Witness ==
    /\ self = "B"
    /\ pc = "idle"
    /\ outcome.via = "done"
    /\ Len(chat_history) = 2
    /\ other.pc = "tools"
    /\ Len(other.chat_history) = 2
    /\ other.chat_history # chat_history

====
